---- MODULE Spec2Model ----
(***************************************************************************)
(* mikrotik-exporter: the probe path of the exporter.                      *)
(*                                                                         *)
(*   main()            registers the collectors, loads the configuration   *)
(*                     and starts the HTTP server;                         *)
(*   probeHandler      validates a /probe request, resolves the module's   *)
(*                     collectors, and serves the metrics gathered by a    *)
(*                     ProbeCollector under one 30 s context;              *)
(*   ProbeCollector    runs the resolved collectors one after the other;   *)
(*   Collector.Collect fetches a REST resource (10 s client timeout),      *)
(*                     decodes it and sends samples on the channel.        *)
(*                                                                         *)
(* Time is a discrete clock of seconds, started when the probe's context   *)
(* is created.  A device record is modelled by its identity field `id`;    *)
(* the samples of this module are the ones a collector sends for every     *)
(* record it does not skip, labelled by that identity.                     *)
(***************************************************************************)
EXTENDS Integers, Sequences, FiniteSets, TLC

VARIABLES
    mainPc,             \* position of main(): "register", "load_config", "listen", "serving", "exited"
    nreg,               \* number of Register calls main() has made
    collectors,         \* collectorRegistry.collectors: name -> collector handle
    cfg,                \* the loaded *config.Config, or NoConfig before LoadConfig
    pc,                 \* position of probeHandler: "idle", "gather", "fetching", "decoded", "done"
    query,              \* history: the request's query parameters as sent
    target,             \* r.URL.Query().Get("target")
    authName,           \* the auth name after defaulting
    moduleName,         \* the module name after defaulting
    moduleConfig,       \* moduleConfig.Collectors: name -> BOOLEAN
    enabledCollectors,  \* the resolved collector list (ProbeCollector.collectors)
    idx,                \* index of the collector ProbeCollector.Collect is at
    tbl,                \* index of the resource path the current collector is at
    records,            \* the decoded records of the fetch that just returned
    ch,                 \* the samples sent on the metric channel, in order, each with
                        \* the index of the collector that sent it
    now,                \* seconds since the probe's context was created
    fetchStart,         \* value of now when the fetch in flight was started
    results,            \* per finished collector, how and when its Collect ended
    calls,              \* history: names of the collectors whose Collect was called
    fetches,            \* history: the device GETs issued, with their outcome
    clientGone,         \* the requesting client has disconnected
    status,             \* HTTP status of the response, 0 while none was written
    body                \* the samples of the response body

vars == <<mainPc, nreg, collectors, cfg, pc, query, target, authName, moduleName,
          moduleConfig, enabledCollectors, idx, tbl, records, ch, now,
          fetchStart, results, calls, fetches, clientGone, status, body>>

mainVars == <<mainPc, nreg, collectors, cfg>>

probeVars == <<pc, query, target, authName, moduleName, moduleConfig,
               enabledCollectors, idx, tbl, records, ch, now, fetchStart,
               results, calls, fetches, clientGone, status, body>>

-----------------------------------------------------------------------------
(* Bounds of the model *)

MaxRecords == 2     \* longest record list a device fetch returns
TickSec == 10       \* largest step of the clock
MaxNames == 3       \* names a registry or a selection is drawn from
MaxRegisters == 3   \* Register calls made on one registry

(* Program constants *)

FetchTimeoutSec == 10       \* http.Client{Timeout: 10 * time.Second}
ProbeTimeoutSec == 30       \* context.WithTimeout(context.Background(), 30*time.Second)
StatusBadRequest == 400     \* http.StatusBadRequest
StatusOK == 200             \* promhttp: a gathered registry is served with 200
StatusInternalServerError == 500  \* promhttp, HTTPErrorOnError: a Gather error

-----------------------------------------------------------------------------
(* Names *)

DomainCollectors == {"interfaces", "dhcp", "bgp", "system", "wireless", "firewall"}

\* a name a module may carry although no collector of that name exists
UnknownCollector == "queues"

SelectionNames == DomainCollectors \cup {UnknownCollector}

NoQuery == [target |-> "", auth |-> "", module |-> ""]

NoConfig == [Auths |-> <<>>, Modules |-> <<>>, loaded |-> FALSE]

DefaultNamespace == "mikrotik_exporter"

Min(a, b) == IF a < b THEN a ELSE b

Range(s) == {s[i] : i \in DOMAIN s}

Perms(S) == {f \in [1..Cardinality(S) -> S] : \A i, j \in 1..Cardinality(S) : f[i] = f[j] => i = j}

-----------------------------------------------------------------------------
(* collector package: handles and the registry *)

\* xxx.NewCollector(): a collector with the default namespace
NewCollector(name) == [name |-> name, namespace |-> DefaultNamespace]

\* Collector.SetNamespace
SetNamespace(c, namespace) == [c EXCEPT !.namespace = namespace]

\* collector.NewRegistry(): an empty map
NewRegistry == <<>>

\* a Register that keeps the collector a name already has
RegisterKeepFirst(r, c) ==
    [n \in DOMAIN r \cup {c.name} |-> IF n \in DOMAIN r THEN r[n] ELSE c]

\* Registry.Register: r.collectors[collector.Name()] = collector
Register(r, c) ==
    [n \in DOMAIN r \cup {c.name} |-> IF n = c.name THEN c ELSE r[n]]

\* Registry.List: the keys of the map (in the order the iteration visits them)
List(r, order) == [i \in 1..Len(order) |-> order[i]]

\* a resolve that looks a name up without reading its flag
GetEnabledIgnoringFlag(r, sel, order) ==
    LET known == SelectSeq(order, LAMBDA n : n \in DOMAIN r)
    IN  [i \in 1..Len(known) |-> r[known[i]]]

\* Registry.GetEnabled: `order` is the order in which the range statement
\* visits the keys of enabledCollectors (Go leaves it unspecified).
RECURSIVE GetEnabledFrom(_, _, _, _, _)
GetEnabledFrom(r, sel, order, i, enabled) ==
    IF i > Len(order) THEN enabled
    ELSE LET name == order[i]
         IN  IF sel[name] /\ name \in DOMAIN r
             THEN GetEnabledFrom(r, sel, order, i + 1, Append(enabled, r[name]))
             ELSE GetEnabledFrom(r, sel, order, i + 1, enabled)

\* a resolve that returns the registered collector of every name the selection
\* holds, whatever its flag
GetEnabledAnyKey(r, sel, order) ==
    GetEnabledFrom(r, [n \in DOMAIN sel |-> TRUE], order, 1, <<>>)

GetEnabled(r, sel, order) == GetEnabledFrom(r, sel, order, 1, <<>>)

-----------------------------------------------------------------------------
(* config package *)

\* Config.GetAuth: found iff the name is a key of Auths
GetAuthExists(c, name) == name \in DOMAIN c.Auths

\* Config.GetModule: found iff the name is a key of Modules
GetModuleExists(c, name) == name \in DOMAIN c.Modules

Cred(u, p) == [Username |-> u, Password |-> p]

\* the configurations LoadConfig may return
ConfigChoices ==
    { [Auths   |-> [a \in {"default"} |-> Cred("admin", "admin")],
       Modules |-> [m \in {"default", "minimal"} |->
                        IF m = "default"
                        THEN [n \in {"interfaces", "dhcp", "firewall", "bgp"} |-> n # "bgp"]
                        ELSE [n \in {"firewall", "queues", "system"} |-> n # "system"]],
       loaded  |-> TRUE],
      [Auths   |-> [a \in {"default"} |-> Cred("admin", "admin")],
       Modules |-> [m \in {"default"} |-> [n \in {"wireless", "bgp"} |-> TRUE]],
       loaded  |-> TRUE],
      [Auths   |-> [a \in {"production"} |-> Cred("monitoring", "secure_password")],
       Modules |-> [m \in {"minimal"} |-> [n \in {"system"} |-> TRUE]],
       loaded  |-> TRUE],
      [Auths   |-> <<>>, Modules |-> <<>>, loaded |-> TRUE] }

-----------------------------------------------------------------------------
(* The collectors: resource paths and the samples sent per record *)

FirewallTables == <<"filter", "nat", "mangle", "raw">>

\* resources where a single-fetch collector asks a second time
ResourcePathsRetry(name) ==
    CASE name = "interfaces" -> <<"interface", "interface">>
      [] name = "dhcp"       -> <<"ip/dhcp-server/lease", "ip/dhcp-server/lease">>
      [] name = "bgp"        -> <<"routing/bgp/session", "routing/bgp/session">>
      [] name = "system"     -> <<"system/resource", "system/resource">>
      [] name = "wireless"   -> <<"interface/wifi/registration-table",
                                  "interface/wifi/registration-table">>
      [] name = "firewall"   -> FirewallTables

\* resources with the firewall tables in another order
ResourcePathsMangleFirst(name) ==
    CASE name = "interfaces" -> <<"interface">>
      [] name = "dhcp"       -> <<"ip/dhcp-server/lease">>
      [] name = "bgp"        -> <<"routing/bgp/session">>
      [] name = "system"     -> <<"system/resource">>
      [] name = "wireless"   -> <<"interface/wifi/registration-table">>
      [] name = "firewall"   -> <<"mangle", "filter", "nat", "raw">>

\* the REST resources one Collect fetches, in order (firewall: one per table)
ResourcePaths(name) ==
    CASE name = "interfaces" -> <<"interface">>
      [] name = "dhcp"       -> <<"ip/dhcp-server/lease">>
      [] name = "bgp"        -> <<"routing/bgp/session">>
      [] name = "system"     -> <<"system/resource">>
      [] name = "wireless"   -> <<"interface/wifi/registration-table">>
      [] name = "firewall"   -> FirewallTables

\* identity values a device record may carry ("" is a missing field)
RecordIds == {"", "k1"}

Record(id) == [id |-> id]

RECURSIVE SeqsUpTo(_, _)
SeqsUpTo(S, n) ==
    IF n = 0 THEN {<<>>}
    ELSE LET shorter == SeqsUpTo(S, n - 1)
         IN  shorter \cup {Append(s, x) : s \in {t \in shorter : Len(t) = n - 1}, x \in S}

\* the bodies a fetch may decode: one object for system/resource, a list otherwise
Payloads(name) ==
    IF name = "system"
    THEN {<<Record(id)>> : id \in RecordIds}
    ELSE SeqsUpTo({Record(id) : id \in RecordIds}, MaxRecords)

Sample(metric, labels) == [metric |-> metric, labels |-> labels]

\* the samples a collector sends for one record whatever its numeric fields hold
RecordSamples(name, path, tgt, rec) ==
    CASE name = "interfaces" ->
            << Sample("interface_enabled", <<rec.id>>), Sample("interface_up", <<rec.id>>) >>
      [] name = "dhcp" ->
            IF rec.id = "" THEN <<>> ELSE << Sample("dhcp_bound", <<rec.id>>) >>
      [] name = "bgp" ->
            IF rec.id = "" THEN <<>>
            ELSE << Sample("bgp_session_up", <<rec.id>>), Sample("bgp_session_info", <<rec.id>>) >>
      [] name = "system" ->
            << Sample("system_info", <<tgt>>) >>
      [] name = "wireless" ->
            << Sample("wireless_client_info", <<rec.id>>) >>
      [] name = "firewall" ->
            IF rec.id = "" THEN <<>>
            ELSE << Sample("firewall_rule_enabled", <<rec.id, path>>),
                    Sample("firewall_rule_info", <<rec.id, path>>) >>

\* the record loop of Collect
RECURSIVE CollectRecords(_, _, _, _)
CollectRecords(name, path, tgt, recs) ==
    IF recs = <<>> THEN <<>>
    ELSE RecordSamples(name, path, tgt, Head(recs)) \o CollectRecords(name, path, tgt, Tail(recs))

\* ch <- metric: the samples as they arrive on the channel
Sent(i, samples) == [k \in 1..Len(samples) |-> [by |-> i, sample |-> samples[k]]]

-----------------------------------------------------------------------------
(* Deadlines *)

\* a context that is never done
CtxNeverDone == FALSE

\* a client whose timeout is as long as the probe's
LongFetchDeadline == fetchStart + ProbeTimeoutSec

\* ctx.Done(): the probe's 30 s context has expired
CtxDone == now >= ProbeTimeoutSec

\* http.Client{Timeout: 10 * time.Second}: when the fetch in flight times out
FetchDeadline == fetchStart + FetchTimeoutSec

\* the 10 s timer of the http.Client of the fetch in flight has fired
FetchTimerDue == now >= FetchDeadline

\* the outcomes of a fetch that fail the collector
FetchErrors == {"transport", "status", "malformed"}

-----------------------------------------------------------------------------
(* promhttp.HandlerFor(registry, promhttp.HandlerOpts{}).ServeHTTP *)

\* Registry.Gather reports an error when a sample was collected before with
\* the same name and label values
GatherError(sent) ==
    \E i, j \in 1..Len(sent) : i < j /\ sent[i].sample = sent[j].sample

\* HandlerOpts{}: ErrorHandling is HTTPErrorOnError, a Gather error is a 500
ServeStatus(sent) ==
    IF GatherError(sent) THEN StatusInternalServerError ELSE StatusOK

\* the metrics of the body: none when the error page is served
ServeBody(sent) ==
    IF GatherError(sent) THEN {} ELSE {sent[i].sample : i \in 1..Len(sent)}

-----------------------------------------------------------------------------
(* main() *)

\* the order in which main() registers its collectors
RegistrationOrder == <<"interfaces", "dhcp", "bgp", "system", "wireless">>

\* getEnv("METRICS_NAMESPACE", "mikrotik_exporter")
MetricsNamespace == DefaultNamespace

ProbeIdle ==
    /\ pc = "idle"
    /\ query = NoQuery
    /\ target = ""
    /\ authName = ""
    /\ moduleName = ""
    /\ moduleConfig = <<>>
    /\ enabledCollectors = <<>>
    /\ idx = 1
    /\ tbl = 1
    /\ records = <<>>
    /\ ch = <<>>
    /\ now = 0
    /\ fetchStart = 0
    /\ results = <<>>
    /\ calls = <<>>
    /\ fetches = <<>>
    /\ clientGone = FALSE
    /\ status = 0
    /\ body = {}

\* func init(): an empty registry, no configuration yet
Init ==
    /\ mainPc = "register"
    /\ nreg = 0
    /\ collectors = NewRegistry
    /\ cfg = NoConfig
    /\ ProbeIdle

\* c := xxx.NewCollector(); c.SetNamespace(ns); collectorRegistry.Register(c)
MainRegister ==
    /\ mainPc = "register"
    /\ nreg < Len(RegistrationOrder)
    /\ collectors' = Register(collectors,
                              SetNamespace(NewCollector(RegistrationOrder[nreg + 1]),
                                           MetricsNamespace))
    /\ nreg' = nreg + 1
    /\ mainPc' = IF nreg + 1 = Len(RegistrationOrder) THEN "load_config" ELSE "register"
    /\ UNCHANGED <<cfg, probeVars>>

\* a LoadConfig that also runs again while the server is serving
MainLoadConfigReload ==
    /\ mainPc \in {"load_config", "serving"}
    /\ \E c \in ConfigChoices \cup {NoConfig} :
          /\ cfg' = c
          /\ mainPc' = IF ~c.loaded THEN "exited"
                       ELSE IF mainPc = "serving" THEN "serving" ELSE "listen"
    /\ UNCHANGED <<nreg, collectors, probeVars>>

\* cfg, err = config.LoadConfig(configFile); log.Fatalf on error
MainLoadConfig ==
    /\ mainPc = "load_config"
    /\ \E c \in ConfigChoices \cup {NoConfig} :
          /\ cfg' = c
          /\ mainPc' = IF c.loaded THEN "listen" ELSE "exited"
    /\ UNCHANGED <<nreg, collectors, probeVars>>

\* http.HandleFunc(...); http.ListenAndServe(addr, nil); log.Fatalf on error
MainListen ==
    /\ mainPc = "listen"
    /\ \E ok \in BOOLEAN : mainPc' = IF ok THEN "serving" ELSE "exited"
    /\ UNCHANGED <<nreg, collectors, cfg, probeVars>>

-----------------------------------------------------------------------------
(* probeHandler *)

\* a parameter taken as it comes, absent or not
NoDefaultName(s) == s

\* if authName == "" { authName = "default" }, the same for moduleName
DefaultName(s) == IF s = "" THEN "default" ELSE s

Targets == {"", "10.0.0.1:80"}
AuthParams == {"", "production", "nosuch"}
ModuleParams == {"", "minimal", "nosuch"}

\* http.Error(w, ..., http.StatusBadRequest); return
BadRequest(t, a, m, sel) ==
    /\ pc' = "done"
    /\ status' = StatusBadRequest
    /\ body' = {}
    /\ target' = t
    /\ authName' = a
    /\ moduleName' = m
    /\ moduleConfig' = sel
    /\ enabledCollectors' = <<>>
    /\ idx' = 1
    /\ tbl' = 1
    /\ records' = <<>>
    /\ ch' = <<>>
    /\ now' = 0
    /\ fetchStart' = 0
    /\ results' = <<>>
    /\ calls' = <<>>
    /\ fetches' = <<>>
    /\ clientGone' = FALSE

\* the handler up to h.ServeHTTP: validation, GetEnabled, the ProbeCollector
\* and its 30 s context
ProbeRequest(t, a, m) ==
    /\ mainPc = "serving"
    /\ pc = "idle"
    /\ query' = [target |-> t, auth |-> a, module |-> m]
    /\ IF t = "" THEN BadRequest(t, a, m, <<>>)
       ELSE LET an == DefaultName(a)
                mn == DefaultName(m)
            IN  IF ~GetAuthExists(cfg, an) THEN BadRequest(t, an, mn, <<>>)
                ELSE IF ~GetModuleExists(cfg, mn) THEN BadRequest(t, an, mn, <<>>)
                ELSE LET sel == cfg.Modules[mn]
                     IN  \E order \in Perms(DOMAIN sel) :
                            LET enabled == GetEnabled(collectors, sel, order)
                            IN  IF Len(enabled) = 0 THEN BadRequest(t, an, mn, sel)
                                ELSE /\ pc' = "gather"
                                     /\ status' = 0
                                     /\ body' = {}
                                     /\ target' = t
                                     /\ authName' = an
                                     /\ moduleName' = mn
                                     /\ moduleConfig' = sel
                                     /\ enabledCollectors' = enabled
                                     /\ idx' = 1
                                     /\ tbl' = 1
                                     /\ records' = <<>>
                                     /\ ch' = <<>>
                                     /\ now' = 0
                                     /\ fetchStart' = 0
                                     /\ results' = <<>>
                                     /\ calls' = <<>>
                                     /\ fetches' = <<>>
                                     /\ clientGone' = FALSE
    /\ UNCHANGED mainVars

-----------------------------------------------------------------------------
(* ProbeCollector.Collect and the collectors' Collect *)

Current == enabledCollectors[idx].name

\* http.NewRequestWithContext(ctx, "GET", url, nil); client.Do(req)
StartFetch(name, t) ==
    /\ pc' = "fetching"
    /\ tbl' = t
    /\ fetchStart' = now
    /\ fetches' = Append(fetches, [collector |-> name,
                                   path      |-> ResourcePaths(name)[t],
                                   start     |-> now,
                                   end       |-> now,
                                   gone      |-> clientGone,
                                   goneEnd   |-> clientGone,
                                   outcome   |-> "inflight"])

EndFetch(outcome) ==
    fetches' = [fetches EXCEPT ![Len(fetches)] =
                   [@ EXCEPT !.end = now, !.goneEnd = clientGone, !.outcome = outcome]]

\* the collector's Collect returns (nil or an error); the loop goes on
Return(outcome) ==
    /\ results' = Append(results, [outcome |-> outcome, at |-> now])
    /\ idx' = idx + 1
    /\ tbl' = 1
    /\ pc' = "gather"

\* for _, c := range pc.collectors { c.Collect(pc.ctx, ...) }: the next call
CollectNext ==
    /\ pc = "gather"
    /\ idx <= Len(enabledCollectors)
    /\ calls' = Append(calls, Current)
    /\ StartFetch(Current, 1)
    /\ UNCHANGED <<mainVars, query, target, authName, moduleName, moduleConfig,
                   enabledCollectors, idx, records, ch, now, results,
                   clientGone, status, body>>

\* client.Do returns 200 and the body decodes
FetchOk ==
    /\ pc = "fetching"
    /\ ~CtxDone
    /\ ~FetchTimerDue
    /\ \E payload \in Payloads(Current) : records' = payload
    /\ EndFetch("ok")
    /\ pc' = "decoded"
    /\ UNCHANGED <<mainVars, query, target, authName, moduleName, moduleConfig,
                   enabledCollectors, idx, tbl, ch, now, fetchStart, results,
                   calls, clientGone, status, body>>

\* client.Do fails, the status is not 200, or the body does not decode
FetchFails ==
    /\ pc = "fetching"
    /\ ~CtxDone
    /\ ~FetchTimerDue
    /\ \E e \in FetchErrors : EndFetch(e) /\ Return(e)
    /\ UNCHANGED <<mainVars, query, target, authName, moduleName, moduleConfig,
                   enabledCollectors, records, ch, now, fetchStart,
                   calls, clientGone, status, body>>

\* the client's own 10 s timeout cancels the request
FetchTimeout ==
    /\ pc = "fetching"
    /\ ~CtxDone
    /\ FetchTimerDue
    /\ EndFetch("timeout")
    /\ Return("timeout")
    /\ UNCHANGED <<mainVars, query, target, authName, moduleName, moduleConfig,
                   enabledCollectors, records, ch, now, fetchStart,
                   calls, clientGone, status, body>>

\* the probe's context is done: client.Do returns its error
FetchCancelled ==
    /\ pc = "fetching"
    /\ CtxDone
    /\ EndFetch("cancelled")
    /\ Return("cancelled")
    /\ UNCHANGED <<mainVars, query, target, authName, moduleName, moduleConfig,
                   enabledCollectors, records, ch, now, fetchStart,
                   calls, clientGone, status, body>>

\* the record loop; then the next table (firewall) or return nil
EmitRecords ==
    /\ pc = "decoded"
    /\ ch' = ch \o Sent(idx, CollectRecords(Current, ResourcePaths(Current)[tbl], target, records))
    /\ records' = <<>>
    /\ IF tbl < Len(ResourcePaths(Current))
       THEN /\ StartFetch(Current, tbl + 1)
            /\ UNCHANGED <<results, idx>>
       ELSE /\ Return("ok")
            /\ UNCHANGED <<fetches, fetchStart>>
    /\ UNCHANGED <<mainVars, query, target, authName, moduleName, moduleConfig,
                   enabledCollectors, now, calls, clientGone, status, body>>

\* Gather has collected everything: the response is written, the handler
\* returns and its deferred cancel() runs
ServeHTTP ==
    /\ pc = "gather"
    /\ idx > Len(enabledCollectors)
    /\ status' = ServeStatus(ch)
    /\ body' = ServeBody(ch)
    /\ pc' = "done"
    /\ UNCHANGED <<mainVars, query, target, authName, moduleName, moduleConfig,
                   enabledCollectors, idx, tbl, records, ch, now, fetchStart,
                   results, calls, fetches, clientGone>>

\* the connection is ready for its next request: the handler's locals are gone
HandlerReturns ==
    /\ pc = "done"
    /\ pc' = "idle"
    /\ query' = NoQuery
    /\ target' = ""
    /\ authName' = ""
    /\ moduleName' = ""
    /\ moduleConfig' = <<>>
    /\ enabledCollectors' = <<>>
    /\ idx' = 1
    /\ tbl' = 1
    /\ records' = <<>>
    /\ ch' = <<>>
    /\ now' = 0
    /\ fetchStart' = 0
    /\ results' = <<>>
    /\ calls' = <<>>
    /\ fetches' = <<>>
    /\ clientGone' = FALSE
    /\ status' = 0
    /\ body' = {}
    /\ UNCHANGED mainVars

InProgress == pc \in {"gather", "fetching", "decoded"}

\* the clock is not followed beyond this value
MaxClock == ProbeTimeoutSec + FetchTimeoutSec

\* the timers that can wake the handler: both bind the fetch in flight
TimerDue == pc = "fetching" /\ (CtxDone \/ FetchTimerDue)

\* the next instant at which a timer may fire
NextTimer ==
    IF now < ProbeTimeoutSec
    THEN IF pc = "fetching" THEN Min(FetchDeadline, ProbeTimeoutSec)
         ELSE ProbeTimeoutSec
    ELSE IF pc = "fetching" THEN Min(FetchDeadline, MaxClock)
         ELSE MaxClock

\* time passes while a fetch is in flight or its records are processed, up to
\* the next timer; a timer that is due fires first
Tick ==
    /\ pc \in {"fetching", "decoded"}
    /\ now < MaxClock
    /\ ~TimerDue
    /\ now' = Min(now + TickSec, NextTimer)
    /\ UNCHANGED <<mainVars, pc, query, target, authName, moduleName, moduleConfig,
                   enabledCollectors, idx, tbl, records, ch, fetchStart,
                   results, calls, fetches, clientGone, status, body>>

\* the requesting client closes its connection
ClientDisconnects ==
    /\ InProgress
    /\ ~clientGone
    /\ clientGone' = TRUE
    /\ UNCHANGED <<mainVars, pc, query, target, authName, moduleName, moduleConfig,
                   enabledCollectors, idx, tbl, records, ch, now, fetchStart,
                   results, calls, fetches, status, body>>

Probe == \E t \in Targets, a \in AuthParams, m \in ModuleParams : ProbeRequest(t, a, m)

Next ==
    \/ MainRegister
    \/ MainLoadConfig
    \/ MainListen
    \/ Probe
    \/ CollectNext
    \/ FetchOk
    \/ FetchFails
    \/ FetchTimeout
    \/ FetchCancelled
    \/ EmitRecords
    \/ ServeHTTP
    \/ HandlerReturns
    \/ Tick
    \/ ClientDisconnects

Spec == Init /\ [][Next]_vars

-----------------------------------------------------------------------------
(* What the claims speak of *)

\* the names of a collector list, in order
Names(list) == [i \in 1..Len(list) |-> list[i].name]

\* the samples the i-th collector of the list sent on the channel
SamplesBy(i) == {ch[k].sample : k \in {k \in 1..Len(ch) : ch[k].by = i}}

\* the probe passed validation and its response is written
Served == pc = "done" /\ status # StatusBadRequest

\* the names a selection enables that the registry knows
EnabledRegistered(r, sel) == {n \in DOMAIN sel : sel[n] /\ n \in DOMAIN r}

-----------------------------------------------------------------------------
(* C1 *)

\* C1: failure isolation.  Whatever collectors fail, every collector of the
\* resolved list is invoked exactly once, in list order, and every sample sent
\* by a collector whose Collect returned nil is in the probe's output.
C1_FailureIsolation ==
    Served =>
        /\ calls = Names(enabledCollectors)
        /\ \A i \in 1..Len(results) :
              results[i].outcome = "ok" => SamplesBy(i) \subseteq body

-----------------------------------------------------------------------------
(* C2 *)

\* the collector_success samples of the body for one collector
SuccessSamples(name) ==
    {s \in body : s.metric = "collector_success" /\ s.labels = <<name>>}

\* C2: the output of a probe that passed validation holds exactly one
\* collector_success{collector=<name>} sample per collector of the resolved
\* list, 1 if its Collect succeeded and 0 if it failed, and none for any
\* other name.
C2_CollectorSuccess ==
    Served =>
        /\ \A i \in 1..Len(enabledCollectors) :
              /\ Cardinality(SuccessSamples(enabledCollectors[i].name)) = 1
              /\ \A s \in SuccessSamples(enabledCollectors[i].name) :
                    s.value = IF results[i].outcome = "ok" THEN 1 ELSE 0
        /\ \A n \in SelectionNames \ Range(Names(enabledCollectors)) :
              SuccessSamples(n) = {}

-----------------------------------------------------------------------------
(* C3 *)

\* the request fails validation: no target, or the auth or module name (taken
\* as "default" when absent) is not configured, or the module enables no
\* registered collector
Invalid(q) ==
    LET an == IF q.auth = "" THEN "default" ELSE q.auth
        mn == IF q.module = "" THEN "default" ELSE q.module
    IN  \/ q.target = ""
        \/ an \notin DOMAIN cfg.Auths
        \/ mn \notin DOMAIN cfg.Modules
        \/ EnabledRegistered(collectors, cfg.Modules[mn]) = {}

\* C3: a request that fails validation is answered 400 and no collector is
\* ever called and no device fetch issued for it; every other request
\* proceeds to collection with a non-empty collector list.
C3_Validation ==
    pc # "idle" =>
        IF Invalid(query)
        THEN /\ pc = "done"
             /\ status = StatusBadRequest
             /\ calls = <<>>
             /\ fetches = <<>>
        ELSE /\ status # StatusBadRequest
             /\ enabledCollectors # <<>>
             /\ pc = "done" => Len(calls) >= 1 /\ Len(fetches) >= 1

\* a request with a target, a configured auth and a configured module whose
\* enabled names are all unregistered or unknown was answered 400
C3_Witness ==
    /\ pc = "done"
    /\ status = StatusBadRequest
    /\ query.target # ""
    /\ authName \in DOMAIN cfg.Auths
    /\ moduleName \in DOMAIN cfg.Modules
    /\ \E n \in DOMAIN moduleConfig : moduleConfig[n]
    /\ calls = <<>>

-----------------------------------------------------------------------------
(* C4 *)

\* C4: a probe that passed validation is answered with a success status
\* carrying the metrics, whatever the collectors and the device did.
C4_AlwaysSuccess ==
    Served => status = StatusOK /\ body = {ch[k].sample : k \in 1..Len(ch)}

-----------------------------------------------------------------------------
(* C5 *)

\* the probe's deadline expired before collector i had finished
UnfinishedAtDeadline(i) == results[i].at >= ProbeTimeoutSec

\* C5: when the deadline expires before all collectors have finished, the
\* fetch in flight is cancelled and no later fetch completes, every collector
\* that had not finished ends as failed, and the samples of the collectors
\* that completed before the deadline stay in the output.
C5_Deadline ==
    /\ \A k \in 1..Len(fetches) :
          /\ fetches[k].outcome = "ok" => fetches[k].end < ProbeTimeoutSec
          /\ fetches[k].start >= ProbeTimeoutSec =>
                fetches[k].outcome \in {"inflight", "cancelled"}
    /\ \A i \in 1..Len(results) :
          UnfinishedAtDeadline(i) => results[i].outcome # "ok"
    /\ (Served /\ \E j \in 1..Len(results) : UnfinishedAtDeadline(j)) =>
          \A i \in 1..Len(results) :
             (results[i].outcome = "ok" /\ ~UnfinishedAtDeadline(i)) =>
                 SamplesBy(i) \subseteq body

-----------------------------------------------------------------------------
(* C6 *)

\* what fairness the scheduling gives: time passes, a due timer fires, and
\* the handler's own steps are taken; the device and the client owe nothing
SpecLive ==
    /\ Init
    /\ [][Next]_vars
    /\ WF_vars(Tick)
    /\ WF_vars(FetchTimeout)
    /\ WF_vars(FetchCancelled)
    /\ WF_vars(CollectNext)
    /\ WF_vars(EmitRecords)
    /\ WF_vars(ServeHTTP)

\* C6: every probe that passed validation eventually writes its response,
\* whatever the device answers or fails to answer; and once the probe's
\* deadline has expired no time passes with a fetch in flight.
C6_EventuallyResponds ==
    /\ InProgress ~> (pc = "done")
    /\ [][(pc = "fetching" /\ now >= ProbeTimeoutSec) => now' = now]_vars

\* a probe answered although the device never answered a fetch
C6_Witness ==
    /\ Served
    /\ Len(fetches) >= 2
    /\ \A k \in 1..Len(fetches) : fetches[k].outcome \in {"timeout", "cancelled"}

-----------------------------------------------------------------------------
(* C7 *)

\* C7: once the requesting client has disconnected, a device fetch of the
\* probe ends by cancellation only, and none is in flight after the request
\* has completed.
C7_DisconnectCancels ==
    \A k \in 1..Len(fetches) :
        /\ fetches[k].goneEnd => fetches[k].outcome \in {"inflight", "cancelled"}
        /\ pc \in {"done", "idle"} => fetches[k].outcome # "inflight"

-----------------------------------------------------------------------------
(* C8 *)

\* C8: the per-fetch deadline is shorter than the probe deadline; no fetch
\* lasts longer than the per-fetch deadline nor beyond the probe deadline; a
\* fetch ended by its own deadline ends exactly then, with probe budget left,
\* fails only the collector that issued it, and every collector of the list
\* is still called.
C8_FetchDeadlines ==
    /\ FetchTimeoutSec < ProbeTimeoutSec
    /\ pc = "fetching" =>
          /\ now - fetchStart <= FetchTimeoutSec
          /\ fetchStart < ProbeTimeoutSec => now <= ProbeTimeoutSec
          /\ fetchStart >= ProbeTimeoutSec => now = fetchStart
    /\ \A k \in 1..Len(fetches) :
          /\ fetches[k].end - fetches[k].start <= FetchTimeoutSec
          /\ fetches[k].start < ProbeTimeoutSec => fetches[k].end <= ProbeTimeoutSec
          /\ fetches[k].start >= ProbeTimeoutSec => fetches[k].end = fetches[k].start
          /\ fetches[k].outcome = "timeout" =>
                /\ fetches[k].end = fetches[k].start + FetchTimeoutSec
                /\ fetches[k].end < ProbeTimeoutSec
                /\ Cardinality({i \in 1..Len(results) :
                                   /\ results[i].outcome = "timeout"
                                   /\ results[i].at = fetches[k].end
                                   /\ calls[i] = fetches[k].collector}) = 1
    /\ \A i \in 1..Len(results) :
          results[i].outcome = "timeout" =>
              /\ results[i].at < ProbeTimeoutSec
              /\ Served => calls = Names(enabledCollectors)

\* the first collector's fetch hit the per-fetch deadline, the second
\* collector was called after it and succeeded
C8_Witness ==
    /\ Served
    /\ Len(results) = 2
    /\ results[1].outcome = "timeout"
    /\ results[1].at = FetchTimeoutSec
    /\ results[2].outcome = "ok"
    /\ SamplesBy(2) # {}
    /\ SamplesBy(2) \subseteq body

-----------------------------------------------------------------------------
(* C9 *)

\* C9: when the server serves probes the registry holds the six domain
\* collectors: a module enabling only one of the six names resolves to that
\* one collector.
C9_SixRegistered ==
    mainPc = "serving" =>
        \A n \in DomainCollectors :
            LET e == GetEnabled(collectors, [x \in {n} |-> TRUE], <<n>>)
            IN  Len(e) = 1 /\ e[1].name = n

-----------------------------------------------------------------------------
(* C10: Registry.GetEnabled over any registry and any selection *)

NameOrder == <<"interfaces", "firewall", "queues", "dhcp", "bgp", "system", "wireless">>

ResolveNames == {NameOrder[i] : i \in 1..Min(MaxNames, Len(NameOrder))}

\* the registries Register can build over these names: each key holds the
\* collector of that name
Registries == {[n \in S |-> NewCollector(n)] : S \in SUBSET ResolveNames}

\* the selections a module can hold over these names
Selections == UNION {[S -> BOOLEAN] : S \in SUBSET ResolveNames}

InitResolve ==
    /\ mainPc = "serving"
    /\ nreg = 0
    /\ collectors \in Registries
    /\ cfg = NoConfig
    /\ pc = "idle"
    /\ query = NoQuery
    /\ target = ""
    /\ authName = ""
    /\ moduleName = ""
    /\ moduleConfig \in Selections
    /\ enabledCollectors = <<>>
    /\ idx = 1
    /\ tbl = 1
    /\ records = <<>>
    /\ ch = <<>>
    /\ now = 0
    /\ fetchStart = 0
    /\ results = <<>>
    /\ calls = <<>>
    /\ fetches = <<>>
    /\ clientGone = FALSE
    /\ status = 0
    /\ body = {}

\* enabledCollectors := collectorRegistry.GetEnabled(moduleConfig)
ResolveCall ==
    /\ pc = "idle"
    /\ \E order \in Perms(DOMAIN moduleConfig) :
          enabledCollectors' = GetEnabled(collectors, moduleConfig, order)
    /\ pc' = "resolved"
    /\ UNCHANGED <<mainVars, query, target, authName, moduleName, moduleConfig,
                   idx, tbl, records, ch, now, fetchStart, results, calls,
                   fetches, clientGone, status, body>>

NextResolve == ResolveCall

SpecResolve == InitResolve /\ [][NextResolve]_vars

\* C10: resolve returns exactly the registered collectors whose name the
\* selection maps to true, each once; names mapped to false are left out and
\* names the registry does not know are ignored.
C10_Resolve ==
    pc = "resolved" =>
        /\ Range(enabledCollectors) =
              {collectors[n] : n \in EnabledRegistered(collectors, moduleConfig)}
        /\ Len(enabledCollectors) =
              Cardinality(EnabledRegistered(collectors, moduleConfig))
        /\ \A i \in 1..Len(enabledCollectors) :
              /\ enabledCollectors[i].name \in DOMAIN moduleConfig
              /\ moduleConfig[enabledCollectors[i].name]
              /\ enabledCollectors[i].name \in DOMAIN collectors

\* a resolve that returned a collector, left out a registered name mapped to
\* false and ignored a name mapped to true that the registry does not know
C10_Witness ==
    /\ pc = "resolved"
    /\ enabledCollectors # <<>>
    /\ \E n \in DOMAIN moduleConfig : ~moduleConfig[n] /\ n \in DOMAIN collectors
    /\ \E n \in DOMAIN moduleConfig : moduleConfig[n] /\ n \notin DOMAIN collectors

-----------------------------------------------------------------------------
(* C11: two calls of Registry.GetEnabled *)

\* a second probe of the same module: GetEnabled again, same registry and
\* same selection; the range statement picks its order anew
ResolveAgain ==
    /\ pc = "resolved"
    /\ \E order \in Perms(DOMAIN moduleConfig) :
          enabledCollectors' = GetEnabled(collectors, moduleConfig, order)
    /\ UNCHANGED <<mainVars, pc, query, target, authName, moduleName, moduleConfig,
                   idx, tbl, records, ch, now, fetchStart, results, calls,
                   fetches, clientGone, status, body>>

NextResolveTwice ==
    \/ ResolveCall
    \/ ResolveAgain

SpecResolveTwice == InitResolve /\ [][NextResolveTwice]_vars

\* C11: resolution order is deterministic: a second resolve of the same
\* selection against the same registry returns the collectors in the same
\* order as the first.
C11_DeterministicOrder ==
    [][(pc = "resolved" /\ pc' = "resolved") =>
          enabledCollectors' = enabledCollectors]_vars

-----------------------------------------------------------------------------
(* C12 *)

\* C12: no sample a collector sends carries an empty string in its identity
\* label (the first label of every sample of this model): a record whose
\* identity field is empty yields no sample.
C12_NoEmptyIdentity ==
    \A k \in 1..Len(ch) : ch[k].sample.labels[1] # ""

-----------------------------------------------------------------------------
(* The record loops of the collectors, field by field.  One Collect over one *)
(* decoded record: `records` holds the record, `ch` receives the samples.    *)

\* everything but the record, the channel and the position at rest
UnitVars == <<mainPc, nreg, collectors, cfg, query, target, authName, moduleName,
              moduleConfig, enabledCollectors, idx, tbl, now, fetchStart,
              results, calls, fetches, clientGone, status, body>>

UnitIdle ==
    /\ mainPc = "serving"
    /\ nreg = 0
    /\ collectors = NewRegistry
    /\ cfg = NoConfig
    /\ query = NoQuery
    /\ target = "10.0.0.1:80"
    /\ authName = "default"
    /\ moduleName = "default"
    /\ moduleConfig = <<>>
    /\ enabledCollectors = <<>>
    /\ idx = 1
    /\ tbl = 1
    /\ now = 0
    /\ fetchStart = 0
    /\ results = <<>>
    /\ calls = <<>>
    /\ fetches = <<>>
    /\ clientGone = FALSE
    /\ status = 0
    /\ body = {}

\* prometheus.NewDesc(c.namespace+"_"+name, help, labelNames, nil)
NewDesc(name, labelNames) == [name |-> name, labelNames |-> labelNames]

\* prometheus.MustNewConstMetric(desc, valueType, value, labelValues...)
MustNewConstMetric(desc, value, labelValues) ==
    [metric |-> desc.name, desc |-> desc, value |-> value, labels |-> labelValues]

-----------------------------------------------------------------------------
(* dhcp: Collector.Collect, one lease *)

boundDesc == NewDesc("dhcp_bound", <<"device_ip", "mac", "dhcp_server", "device_hostname">>)

\* the leases a device may return: every field present or empty
DHCPLeases ==
    [ActiveAddress : {"", "10.0.0.9"}, Address : {"", "10.0.0.5"},
     ActiveMacAddress : {"", "AA:AA"}, MacAddress : {"", "BB:BB"},
     ActiveServer : {"", "dhcp-active"}, Server : {"", "dhcp1"},
     HostName : {"", "host1"}, Status : {"bound", "waiting"}]

\* a loop body that prefers the configured field to the active one
DhcpLeaseConfiguredFirst(lease) ==
    LET ip == IF lease.Address = "" THEN lease.ActiveAddress ELSE lease.Address
        mac == IF lease.MacAddress = "" THEN lease.ActiveMacAddress ELSE lease.MacAddress
        dhcpServer == IF lease.Server = "" THEN lease.ActiveServer ELSE lease.Server
        hostname == IF lease.HostName = "" THEN "unknown" ELSE lease.HostName
    IN  IF ip = "" \/ mac = "" \/ dhcpServer = "" THEN <<>>
        ELSE << MustNewConstMetric(boundDesc, IF lease.Status = "bound" THEN 1 ELSE 0,
                                   <<ip, mac, dhcpServer, hostname>>) >>

\* for _, lease := range leases { ... }: the body, for one lease
DhcpLease(lease) ==
    LET ip == IF lease.ActiveAddress = "" THEN lease.Address ELSE lease.ActiveAddress
        mac == IF lease.ActiveMacAddress = "" THEN lease.MacAddress ELSE lease.ActiveMacAddress
        dhcpServer == IF lease.ActiveServer = "" THEN lease.Server ELSE lease.ActiveServer
        hostname == IF lease.HostName = "" THEN "unknown" ELSE lease.HostName
    IN  IF ip = "" \/ mac = "" \/ dhcpServer = "" THEN <<>>
        ELSE << MustNewConstMetric(boundDesc, IF lease.Status = "bound" THEN 1 ELSE 0,
                                   <<ip, mac, dhcpServer, hostname>>) >>

InitDhcp ==
    /\ UnitIdle
    /\ pc = "idle"
    /\ records \in {<<lease>> : lease \in DHCPLeases}
    /\ ch = <<>>

DhcpCollect ==
    /\ pc = "idle"
    /\ ch' = Sent(1, DhcpLease(records[1]))
    /\ pc' = "collected"
    /\ UNCHANGED <<UnitVars, records>>

NextDhcp == DhcpCollect

SpecDhcp == InitDhcp /\ [][NextDhcp]_vars

\* the active field when it is not empty, else the configured one
ActiveOr(active, configured) == IF active # "" THEN active ELSE configured

\* C13: each of the ip, mac and server labels of a lease is the active-* field
\* when that is not empty and the configured field otherwise; a lease with one
\* of the three empty after the fallback yields no sample; any other lease
\* yields exactly one dhcp_bound sample whose hostname label is the host-name
\* field, or "unknown" when that is empty.
C13_LeaseFallback ==
    pc = "collected" =>
        LET l == records[1]
            ip == ActiveOr(l.ActiveAddress, l.Address)
            mac == ActiveOr(l.ActiveMacAddress, l.MacAddress)
            server == ActiveOr(l.ActiveServer, l.Server)
        IN  IF "" \in {ip, mac, server}
            THEN ch = <<>>
            ELSE /\ Len(ch) = 1
                 /\ ch[1].sample.metric = "dhcp_bound"
                 /\ ch[1].sample.labels[1] = ip
                 /\ ch[1].sample.labels[2] = mac
                 /\ ch[1].sample.labels[3] = server
                 /\ ch[1].sample.labels[4] = (IF l.HostName = "" THEN "unknown" ELSE l.HostName)
                 /\ Len(ch[1].sample.labels) = 4

\* a lease whose active address is empty and whose configured address is not,
\* with both servers given and no host name, produced its one sample
C13_Witness ==
    /\ pc = "collected"
    /\ records[1].ActiveAddress = ""
    /\ records[1].Address # ""
    /\ records[1].ActiveServer # ""
    /\ records[1].Server # ""
    /\ records[1].HostName = ""
    /\ Len(ch) = 1
    /\ ch[1].sample.labels[1] = records[1].Address
    /\ ch[1].sample.labels[3] = records[1].ActiveServer
    /\ ch[1].sample.labels[4] = "unknown"

-----------------------------------------------------------------------------
(* Strings and strconv.  A string is the sequence of its characters. *)

DecDigits == {"0", "1", "2", "3", "4", "5", "6", "7", "8", "9"}

HexLetters == {"a", "b", "c", "d", "e", "f", "A", "B", "C", "D", "E", "F"}

Signs == {"+", "-"}

DigitVal(c) ==
    CASE c = "0" -> 0 [] c = "1" -> 1 [] c = "2" -> 2 [] c = "3" -> 3 [] c = "4" -> 4
      [] c = "5" -> 5 [] c = "6" -> 6 [] c = "7" -> 7 [] c = "8" -> 8 [] c = "9" -> 9
      [] c \in {"a", "A"} -> 10 [] c \in {"b", "B"} -> 11 [] c \in {"c", "C"} -> 12
      [] c \in {"d", "D"} -> 13 [] c \in {"e", "E"} -> 14 [] c \in {"f", "F"} -> 15

\* unicode.ToLower on the letters that matter here
ToLower(c) ==
    CASE c = "N" -> "n" [] c = "A" -> "a" [] c = "I" -> "i" [] c = "F" -> "f"
      [] c = "T" -> "t" [] c = "Y" -> "y" [] c = "E" -> "e" [] c = "X" -> "x"
      [] c = "P" -> "p" [] OTHER -> c

LowerString(s) == [i \in 1..Len(s) |-> ToLower(s[i])]

\* the index after the longest run of characters of S that starts at i
RECURSIVE SkipRun(_, _, _)
SkipRun(s, i, S) ==
    IF i <= Len(s) /\ s[i] \in S THEN SkipRun(s, i + 1, S) ELSE i

\* the number a run of digits writes in the base
RECURSIVE DigitsValue(_, _)
DigitsValue(s, base) ==
    IF s = <<>> THEN 0
    ELSE DigitsValue(SubSeq(s, 1, Len(s) - 1), base) * base + DigitVal(s[Len(s)])

RECURSIVE Pow(_, _)
Pow(b, n) == IF n <= 0 THEN 1 ELSE b * Pow(b, n - 1)

Failed == [ok |-> FALSE, val |-> 0]

Parsed(v) == [ok |-> TRUE, val |-> v]

\* strconv.ParseUint(s, 10, 64): digits only, no sign, no prefix, no underscore
\* (the strings of this model stay far below 2^64)
ParseUint(s) ==
    IF s # <<>> /\ \A i \in 1..Len(s) : s[i] \in DecDigits
    THEN Parsed(DigitsValue(s, 10))
    ELSE Failed

\* strconv.ParseInt(s, 10, 64) and strconv.Atoi(s): an optional sign, digits
ParseInt(s) ==
    LET unsigned == IF s # <<>> /\ s[1] \in Signs THEN Tail(s) ELSE s
        u == ParseUint(unsigned)
    IN  IF ~u.ok THEN Failed
        ELSE Parsed(IF s[1] = "-" THEN 0 - u.val ELSE u.val)

\* a float64, written num/den, or one of the special values
Finite(num, den) == [class |-> "finite", num |-> num, den |-> den]

NaN == [class |-> "NaN", num |-> 0, den |-> 1]

Inf(neg) == [class |-> "Inf", num |-> IF neg THEN 0 - 1 ELSE 1, den |-> 1]

\* float64(n)
Float64(n) == Finite(n, 1)

\* strconv.ParseFloat, special(): "inf" and "infinity" with an optional sign,
\* "nan" without one, in any case
ParseSpecial(s) ==
    LET signed == s # <<>> /\ s[1] \in Signs
        rest == LowerString(IF signed THEN Tail(s) ELSE s)
    IN  IF rest \in {<<"i", "n", "f">>, <<"i", "n", "f", "i", "n", "i", "t", "y">>}
        THEN Parsed(Inf(signed /\ s[1] = "-"))
        ELSE IF ~signed /\ rest = <<"n", "a", "n">> THEN Parsed(NaN)
        ELSE Failed

\* the digits of a mantissa, the base they are written in and the base of the
\* exponent
MantissaDigits(hex) == IF hex THEN DecDigits \cup HexLetters ELSE DecDigits

MantissaBase(hex) == IF hex THEN 16 ELSE 10

ExponentUnit(hex) == IF hex THEN 2 ELSE 10

\* the float mantissa * unit^shift
Scaled(mantissa, unit, shift) ==
    IF shift >= 0 THEN Finite(mantissa * Pow(unit, shift), 1)
    ELSE Finite(mantissa, Pow(unit, 0 - shift))

\* readFloat, the end: int and frac are the digits before and after the point,
\* exp the digits of the exponent (f..g-1) when there is an exponent mark
ReadFloatValue(s, hex, int, frac, expMark, expNeg, f, g) ==
    IF /\ Len(int) + Len(frac) >= 1
       /\ expMark => g > f
       /\ hex => expMark
       /\ g = Len(s) + 1
    THEN Parsed(Scaled(
            (IF s[1] = "-" THEN 0 - 1 ELSE 1) * DigitsValue(int \o frac, MantissaBase(hex)),
            ExponentUnit(hex),
            (IF expMark
             THEN (IF expNeg THEN 0 - 1 ELSE 1) * DigitsValue(SubSeq(s, f, g - 1), 10)
             ELSE 0)
              - (IF hex THEN 4 * Len(frac) ELSE Len(frac))))
    ELSE Failed

\* readFloat, the exponent: its digits start at f when there is a mark at d
ReadExponent(s, hex, int, frac, expMark, d, f) ==
    ReadFloatValue(s, hex, int, frac, expMark,
                   expMark /\ d + 1 <= Len(s) /\ s[d + 1] = "-",
                   f, IF expMark THEN SkipRun(s, f, DecDigits) ELSE d)

\* readFloat, after the mantissa, which ended before d
ReadExponentMark(s, hex, int, frac, expMark, d) ==
    ReadExponent(s, hex, int, frac, expMark, d,
                 IF expMark /\ d + 1 <= Len(s) /\ s[d + 1] \in Signs THEN d + 2 ELSE d + 1)

\* readFloat, the fraction: the mantissa is s[b..c-1], a point at c when dot,
\* and the fraction ends before d
ReadFraction(s, hex, b, c, dot, d) ==
    ReadExponentMark(s, hex, SubSeq(s, b, c - 1),
                     IF dot THEN SubSeq(s, c + 1, d - 1) ELSE <<>>,
                     d <= Len(s) /\ ToLower(s[d]) = (IF hex THEN "p" ELSE "e"), d)

\* readFloat, the point at c
ReadPoint(s, hex, b, c, dot) ==
    ReadFraction(s, hex, b, c, dot, IF dot THEN SkipRun(s, c + 1, MantissaDigits(hex)) ELSE c)

\* readFloat, the integer digits s[b..c-1]
ReadDigitsTo(s, hex, b, c) == ReadPoint(s, hex, b, c, c <= Len(s) /\ s[c] = ".")

\* readFloat, the integer digits from b on
ReadMantissa(s, hex, b) == ReadDigitsTo(s, hex, b, SkipRun(s, b, MantissaDigits(hex)))

\* readFloat, the base prefix at a
ReadBase(s, a, hex) == ReadMantissa(s, hex, IF hex THEN a + 2 ELSE a)

\* readFloat, after the sign
ReadSigned(s, a) ==
    ReadBase(s, a, a + 1 <= Len(s) /\ s[a] = "0" /\ ToLower(s[a + 1]) = "x")

\* strconv.ParseFloat, readFloat(): [sign] digits [. digits] [e [sign] digits]
\* in base 10, or [sign] 0x hexdigits [. hexdigits] p [sign] digits; the whole
\* string must be read
ParseNumber(s) ==
    IF s = <<>> THEN Failed
    ELSE ReadSigned(s, IF s[1] \in Signs THEN 2 ELSE 1)

\* ParseFloat, once special() has run
ParseFloatAfter(special, s) == IF special.ok THEN special ELSE ParseNumber(s)

\* strconv.ParseFloat(s, 64)
ParseFloat(s) == ParseFloatAfter(ParseSpecial(s), s)

-----------------------------------------------------------------------------
(* The numeric fields of the collectors *)

\* the strings a device may put in a numeric field
NumericStrings ==
    {<<>>,
     <<"0">>,
     <<"4", "2">>,
     <<"-", "5">>,
     <<"+", "7">>,
     <<"1", ".", "5">>,
     <<"1", "e", "2">>,
     <<"a", "b">>,
     <<"1", "2", "a">>,
     <<" ", "7">>,
     <<"0", "x", "1", "0">>,
     <<"0", "x", "1", "p", "4">>,
     <<"N", "a", "N">>,
     <<"I", "n", "f">>,
     <<"-", "i", "n", "f">>}

\* parseUint64 (interfaces, system, wireless)
parseUint64(s) ==
    IF s = <<>> THEN Failed
    ELSE LET u == ParseUint(s) IN IF u.ok THEN Parsed(Float64(u.val)) ELSE Failed

\* Collector.parseNumericField (bgp, firewall)
parseNumericField(value) ==
    IF value = <<>> THEN Failed ELSE ParseFloat(value)

\* the decoder an emit site calls on its field
Decode(decoder, s) ==
    CASE decoder = "parseUint64" -> parseUint64(s)
      [] decoder = "parseNumericField" -> parseNumericField(s)
      [] decoder = "ParseFloat" -> ParseFloat(s)

\* one `if v, err := decode(rec.Field); err == nil { ch <- ... }` of a Collect
NumericField(field, metric, labelNames, decoder) ==
    [field |-> field, desc |-> NewDesc(metric, labelNames), decoder |-> decoder]

basicLabels == <<"name", "type">>

targetLabel == <<"target">>

macLabel == <<"mac">>

\* the numeric emit sites of each Collect, in source order
NumericFields(name) ==
    CASE name = "interfaces" ->
        <<NumericField("rx-byte", "interface_rx_bytes_total", basicLabels, "parseUint64"),
          NumericField("rx-packet", "interface_rx_packets_total", basicLabels, "parseUint64"),
          NumericField("fp-rx-byte", "interface_fp_rx_bytes_total", basicLabels, "parseUint64"),
          NumericField("fp-rx-packet", "interface_fp_rx_packets_total", basicLabels, "parseUint64"),
          NumericField("tx-byte", "interface_tx_bytes_total", basicLabels, "parseUint64"),
          NumericField("tx-packet", "interface_tx_packets_total", basicLabels, "parseUint64"),
          NumericField("fp-tx-byte", "interface_fp_tx_bytes_total", basicLabels, "parseUint64"),
          NumericField("fp-tx-packet", "interface_fp_tx_packets_total", basicLabels, "parseUint64"),
          NumericField("tx-queue-drop", "interface_tx_queue_drop_total", basicLabels, "parseUint64"),
          NumericField("mtu", "interface_mtu", basicLabels, "parseUint64"),
          NumericField("link-downs", "interface_link_downs_total", basicLabels, "parseUint64")>>
      [] name = "system" ->
        <<NumericField("cpu-count", "system_cpu_cores", targetLabel, "parseUint64"),
          NumericField("cpu-frequency", "system_cpu_freq", targetLabel, "parseUint64"),
          NumericField("cpu-load", "system_cpu_load", targetLabel, "parseUint64"),
          NumericField("total-hdd-space", "system_total_disk", targetLabel, "parseUint64"),
          NumericField("free-hdd-space", "system_free_disk", targetLabel, "parseUint64"),
          NumericField("bad-blocks", "system_bad_blocks", targetLabel, "parseUint64"),
          NumericField("write-sect-total", "system_write_sect_total", targetLabel, "parseUint64"),
          NumericField("total-memory", "system_total_memory", targetLabel, "parseUint64"),
          NumericField("free-memory", "system_free_memory", targetLabel, "parseUint64")>>
      [] name = "bgp" ->
        <<NumericField("prefix-count", "bgp_session_prefix_count", <<"name">>, "parseNumericField"),
          NumericField("remote.bytes", "bgp_session_remote_bytes_total", <<"name">>, "parseNumericField"),
          NumericField("remote.messages", "bgp_session_remote_messages_total", <<"name">>, "parseNumericField"),
          NumericField("local.bytes", "bgp_session_local_bytes_total", <<"name">>, "parseNumericField"),
          NumericField("local.messages", "bgp_session_local_messages_total", <<"name">>, "parseNumericField")>>
      [] name = "firewall" ->
        <<NumericField("bytes", "firewall_rule_bytes", <<"id", "table">>, "parseNumericField"),
          NumericField("packets", "firewall_rule_packets", <<"id", "table">>, "parseNumericField")>>
      [] name = "wireless" ->
        <<NumericField("rx-rate", "wireless_rx_rate", macLabel, "parseUint64"),
          NumericField("tx-rate", "wireless_tx_rate", macLabel, "parseUint64"),
          NumericField("signal", "wireless_signal", macLabel, "ParseFloat")>>
      [] name = "dhcp" -> <<>>

\* the label values the numeric samples of a record carry
NumericLabels(name, tgt) ==
    CASE name = "interfaces" -> <<"ether1", "ether">>
      [] name = "system" -> <<tgt>>
      [] name = "bgp" -> <<"peer1">>
      [] name = "firewall" -> <<"*1", "filter">>
      [] name = "wireless" -> <<"AA:AA">>
      [] name = "dhcp" -> <<>>

\* the k-th numeric emit site of a loop body, with the label values the loop
\* body built
FieldSample(name, labels, values, k) ==
    LET f == NumericFields(name)[k]
        v == Decode(f.decoder, values[k])
    IN  IF v.ok THEN <<MustNewConstMetric(f.desc, v.val, labels)>> ELSE <<>>

\* the numeric emit sites of one loop body, from the k-th on
RECURSIVE FieldSamplesFrom(_, _, _, _)
FieldSamplesFrom(name, labels, values, k) ==
    IF k > Len(NumericFields(name)) THEN <<>>
    ELSE FieldSample(name, labels, values, k)
            \o FieldSamplesFrom(name, labels, values, k + 1)

NumericSamplesFrom(name, tgt, values, k) ==
    FieldSamplesFrom(name, NumericLabels(name, tgt), values, k)

NumericSamples(name, tgt, values) == NumericSamplesFrom(name, tgt, values, 1)

NumericCollectors == {"interfaces", "system", "bgp", "firewall", "wireless"}

\* a record of a collector: one field holds s, the others hold t
NumericRecord(name, i, s, t) ==
    [collector |-> name,
     fields |-> [k \in 1..Len(NumericFields(name)) |-> IF k = i THEN s ELSE t]]

InitNumeric ==
    /\ UnitIdle
    /\ pc = "idle"
    /\ records \in UNION {{<<NumericRecord(name, i, s, t)>> :
                                i \in 1..Len(NumericFields(name)),
                                s \in NumericStrings, t \in {<<>>, <<"4", "2">>}} :
                            name \in NumericCollectors}
    /\ ch = <<>>

NumericCollect ==
    /\ pc = "idle"
    /\ ch' = Sent(1, NumericSamples(records[1].collector, target, records[1].fields))
    /\ pc' = "collected"
    /\ UNCHANGED <<UnitVars, records>>

NextNumeric == NumericCollect

SpecNumeric == InitNumeric /\ [][NextNumeric]_vars

\* the samples of one metric on the channel
SamplesOf(metric) == {k \in 1..Len(ch) : ch[k].sample.metric = metric}

\* every character of the string may occur in a decimal number
DecimalCharsOnly(s) ==
    \A i \in 1..Len(s) : s[i] \in DecDigits \cup {".", "+", "-", "e", "E"}

\* the string is a run of decimal digits
UnsignedDecimal(s) == s # <<>> /\ \A i \in 1..Len(s) : s[i] \in DecDigits

\* C14: a numeric field that is empty or does not write a number yields no
\* sample of its metric, and a field that writes an unsigned decimal yields
\* its sample with that value whatever the other fields of the record hold.
C14_NumericSuppression ==
    pc = "collected" =>
        LET rec == records[1]
            F == NumericFields(rec.collector)
        IN  \A k \in 1..Len(F) :
               /\ (rec.fields[k] = <<>> \/ ~DecimalCharsOnly(rec.fields[k])) =>
                     SamplesOf(F[k].desc.name) = {}
               /\ UnsignedDecimal(rec.fields[k]) =>
                     /\ Cardinality(SamplesOf(F[k].desc.name)) = 1
                     /\ \A j \in SamplesOf(F[k].desc.name) :
                           ch[j].sample.value = Float64(DigitsValue(rec.fields[k], 10))

-----------------------------------------------------------------------------
(* C20 *)

\* C20: the float decoders (parseNumericField of bgp and firewall, the signal
\* decoder of wireless) fail, and send no sample, for every string that is
\* empty or is not a base-10 number, as parseUint64 does.
C20_Base10Only ==
    pc = "collected" =>
        LET rec == records[1]
            F == NumericFields(rec.collector)
        IN  \A k \in 1..Len(F) :
               (/\ F[k].decoder # "parseUint64"
                /\ rec.fields[k] = <<>> \/ ~DecimalCharsOnly(rec.fields[k])) =>
                   /\ ~parseUint64(rec.fields[k]).ok
                   /\ ~Decode(F[k].decoder, rec.fields[k]).ok
                   /\ SamplesOf(F[k].desc.name) = {}

-----------------------------------------------------------------------------
(* Durations: the parseUptime of bgp, system and wireless *)

\* one optional group (?:(\d+)u)? tried at index i: the digits it captures
\* and the index after it (i itself when the group does not match)
UptimeGroup(s, i, u) ==
    LET j == SkipRun(s, i, DecDigits)
    IN  IF j > i /\ j <= Len(s) /\ s[j] = u
        THEN [digits |-> SubSeq(s, i, j - 1), next |-> j + 1]
        ELSE [digits |-> <<>>, next |-> i]

\* regexp `(?:(\d+)w)?(?:(\d+)d)?(?:(\d+)h)?(?:(\d+)m)?(?:(\d+)s)?`,
\* FindStringSubmatch: the leftmost match, which starts at the first character
\* since every group is optional; matches[1..5]
FindUptimeSubmatch(s) ==
    LET w == UptimeGroup(s, 1, "w")
        d == UptimeGroup(s, w.next, "d")
        h == UptimeGroup(s, d.next, "h")
        m == UptimeGroup(s, h.next, "m")
        sec == UptimeGroup(s, m.next, "s")
    IN  <<w.digits, d.digits, h.digits, m.digits, sec.digits>>

\* if matches[k] != "" { if n, err := strconv.ParseInt(matches[k], 10, 64);
\* err == nil { totalSeconds += n * unit } }
UptimePart(digits, unit) ==
    IF digits # <<>> /\ ParseInt(digits).ok THEN ParseInt(digits).val * unit ELSE 0

UptimeTotal(matches) ==
    UptimePart(matches[1], 7 * 24 * 3600) + UptimePart(matches[2], 24 * 3600)
        + UptimePart(matches[3], 3600) + UptimePart(matches[4], 60)
        + UptimePart(matches[5], 1)

\* the index where the digits that end at index i begin
RECURSIVE RunStart(_, _)
RunStart(s, i) == IF i >= 1 /\ s[i] \in DecDigits THEN RunStart(s, i - 1) ELSE i + 1

\* regexp.MustCompile(`\d+ms$`).ReplaceAllString(uptime, "")
StripMilliseconds(s) ==
    IF /\ Len(s) >= 3
       /\ s[Len(s)] = "s"
       /\ s[Len(s) - 1] = "m"
       /\ s[Len(s) - 2] \in DecDigits
    THEN SubSeq(s, 1, RunStart(s, Len(s) - 2) - 1)
    ELSE s

\* a parseUptime that parses the string as it comes
bgpParseUptimeUnstripped(uptime) ==
    IF uptime = <<>> THEN Failed
    ELSE Parsed(UptimeTotal(FindUptimeSubmatch(uptime)))

\* bgp: Collector.parseUptime
bgpParseUptime(uptime) ==
    IF uptime = <<>> THEN Failed
    ELSE Parsed(UptimeTotal(FindUptimeSubmatch(StripMilliseconds(uptime))))

\* a parseUptime that counts a week as five days
systemParseUptimeShortWeek(uptimeStr) ==
    IF uptimeStr = <<>> THEN 0
    ELSE LET matches == FindUptimeSubmatch(uptimeStr)
         IN  UptimeTotal(matches) - UptimePart(matches[1], 2 * 24 * 3600)

\* system: parseUptime
systemParseUptime(uptimeStr) ==
    IF uptimeStr = <<>> THEN 0 ELSE UptimeTotal(FindUptimeSubmatch(uptimeStr))

\* wireless: parseUptime
wirelessParseUptime(uptimeStr) ==
    IF uptimeStr = <<>> THEN 0 ELSE UptimeTotal(FindUptimeSubmatch(uptimeStr))

\* the uptime emit site of each of the three collectors, with the label
\* values the loop body built
UptimeSamplesWith(name, labels, uptime) ==
    CASE name = "bgp" ->
            LET r == bgpParseUptime(uptime)
            IN  IF r.ok /\ r.val > 0
                THEN <<MustNewConstMetric(NewDesc("bgp_session_uptime", <<"name">>),
                                          Float64(r.val), labels)>>
                ELSE <<>>
      [] name = "system" ->
            IF systemParseUptime(uptime) > 0
            THEN <<MustNewConstMetric(NewDesc("system_uptime", targetLabel),
                                      Float64(systemParseUptime(uptime)), labels)>>
            ELSE <<>>
      [] name = "wireless" ->
            IF wirelessParseUptime(uptime) > 0
            THEN <<MustNewConstMetric(NewDesc("wireless_uptime", macLabel),
                                      Float64(wirelessParseUptime(uptime)), labels)>>
            ELSE <<>>

UptimeSamples(name, tgt, uptime) ==
    UptimeSamplesWith(name, NumericLabels(name, tgt), uptime)

\* the counts a duration component is written with
DurationCounts == {1, 2, 4, 12, 27}

\* the milliseconds a duration ends with
MillisecondCounts == {950}

UptimeUnits == <<"w", "d", "h", "m", "s">>

DigitChar(d) == CHOOSE c \in DecDigits : DigitVal(c) = d

\* an integer as the device writes it
RECURSIVE FormatCount(_)
FormatCount(n) ==
    IF n < 10 THEN <<DigitChar(n)>> ELSE FormatCount(n \div 10) \o <<DigitChar(n % 10)>>

\* a component: absent (<<>>) or a count (<<n>>), written as the count
\* immediately followed by its unit
FormatPart(part, unit) == IF part = <<>> THEN <<>> ELSE FormatCount(part[1]) \o unit

\* the uptime string of a device: weeks, days, hours, minutes, seconds and
\* milliseconds in that order, each optional
FormatUptime(parts, ms) ==
    FormatPart(parts[1], <<"w">>) \o FormatPart(parts[2], <<"d">>)
        \o FormatPart(parts[3], <<"h">>) \o FormatPart(parts[4], <<"m">>)
        \o FormatPart(parts[5], <<"s">>) \o FormatPart(ms, <<"m", "s">>)

OptionalCount(S) == {<<>>} \cup {<<n>> : n \in S}

UptimeCollectors == {"bgp", "system", "wireless"}

UptimeRecord(name, parts, ms) ==
    [collector |-> name, parts |-> parts, ms |-> ms, uptime |-> FormatUptime(parts, ms)]

InitUptime ==
    /\ UnitIdle
    /\ pc = "idle"
    /\ records \in {<<UptimeRecord(name, parts, ms)>> :
                        name \in UptimeCollectors,
                        parts \in [1..5 -> OptionalCount(DurationCounts)],
                        ms \in OptionalCount(MillisecondCounts)}
    /\ ch = <<>>

UptimeCollect ==
    /\ pc = "idle"
    /\ ch' = Sent(1, UptimeSamples(records[1].collector, target, records[1].uptime))
    /\ pc' = "collected"
    /\ UNCHANGED <<UnitVars, records>>

NextUptime == UptimeCollect

SpecUptime == InitUptime /\ [][NextUptime]_vars

\* what a decoder returns for a string
DecodeUptime(name, uptime) ==
    CASE name = "bgp" -> bgpParseUptime(uptime).val
      [] name = "system" -> systemParseUptime(uptime)
      [] name = "wireless" -> wirelessParseUptime(uptime)

PartCount(part) == IF part = <<>> THEN 0 ELSE part[1]

\* weeks x 604800 + days x 86400 + hours x 3600 + minutes x 60 + seconds
DurationSum(parts) ==
    PartCount(parts[1]) * 604800 + PartCount(parts[2]) * 86400
        + PartCount(parts[3]) * 3600 + PartCount(parts[4]) * 60 + PartCount(parts[5])

UptimeMetrics == {"bgp_session_uptime", "system_uptime", "wireless_uptime"}

\* the uptime samples on the channel
UptimeSent == {k \in 1..Len(ch) : ch[k].sample.metric \in UptimeMetrics}

C16_MillisecondsStripped ==
    \A r \in {records[1]} :
        r.ms # <<>> =>
            /\ DecodeUptime(r.collector, r.uptime) = DurationSum(r.parts)
            /\ (pc = "collected" /\ DurationSum(r.parts) = 0) => UptimeSent = {}

-----------------------------------------------------------------------------
(* Pairs: parseCommaSeparatedPair and its two emit sites in wireless *)

\* the characters strings.TrimSpace removes, of those the model writes
Whitespace == {" ", "\t"}

\* the indexes of the separators in the string
SepIndexes(s, sep) == {i \in 1..Len(s) : s[i] = sep}

\* strings.Split(s, sep) for a one-character separator
RECURSIVE Split(_, _)
Split(s, sep) ==
    IF SepIndexes(s, sep) = {} THEN <<s>>
    ELSE LET i == CHOOSE j \in SepIndexes(s, sep) : \A l \in SepIndexes(s, sep) : j <= l
         IN  <<SubSeq(s, 1, i - 1)>> \o Split(SubSeq(s, i + 1, Len(s)), sep)

\* the string without its trailing whitespace
RECURSIVE TrimRight(_)
TrimRight(s) ==
    IF s # <<>> /\ s[Len(s)] \in Whitespace THEN TrimRight(SubSeq(s, 1, Len(s) - 1)) ELSE s

\* strings.TrimSpace
TrimSpace(s) == TrimRight(SubSeq(s, SkipRun(s, 1, Whitespace), Len(s)))

PairFailed == [ok |-> FALSE, val1 |-> 0, val2 |-> 0]

\* a pair decoder that takes a second value it cannot parse as zero
parseCommaSeparatedPairLenient(s) ==
    IF s = <<>> THEN PairFailed
    ELSE LET parts == Split(s, ",")
         IN  IF Len(parts) # 2 THEN PairFailed
             ELSE LET val1 == ParseUint(TrimSpace(parts[1]))
                      val2 == ParseUint(TrimSpace(parts[2]))
                  IN  IF ~val1.ok THEN PairFailed
                      ELSE [ok |-> TRUE, val1 |-> val1.val, val2 |-> val2.val]

\* parseCommaSeparatedPair
parseCommaSeparatedPair(s) ==
    IF s = <<>> THEN PairFailed
    ELSE LET parts == Split(s, ",")
         IN  IF Len(parts) # 2 THEN PairFailed
             ELSE LET val1 == ParseUint(TrimSpace(parts[1]))
                      val2 == ParseUint(TrimSpace(parts[2]))
                  IN  IF ~val1.ok THEN PairFailed
                      ELSE IF ~val2.ok THEN PairFailed
                      ELSE [ok |-> TRUE, val1 |-> val1.val, val2 |-> val2.val]

\* if tx, rx, err := parseCommaSeparatedPair(field); err == nil { tx; rx }
PairSamples(field, txMetric, rxMetric, macLabels) ==
    LET pair == parseCommaSeparatedPair(field)
    IN  IF pair.ok
        THEN <<MustNewConstMetric(NewDesc(txMetric, macLabel), Float64(pair.val1), macLabels),
               MustNewConstMetric(NewDesc(rxMetric, macLabel), Float64(pair.val2), macLabels)>>
        ELSE <<>>

\* wireless Collect, the bytes and the packets of one registration
WirelessPairs(reg) ==
    PairSamples(reg.Bytes, "wireless_tx_bytes_total", "wireless_rx_bytes_total",
                <<reg.MacAddress>>)
        \o PairSamples(reg.Packets, "wireless_tx_packets_total",
                       "wireless_rx_packets_total", <<reg.MacAddress>>)

\* the strings a "bytes" or "packets" field holds
PairStrings ==
    {<<>>,
     <<"1", "0", "0", ",", "2", "0", "0">>,
     <<"1", "0", "0">>,
     <<"1", "0", "0", ",", "a", "b", "c">>,
     <<"a", "b", "c", ",", "1", "0", "0">>,
     <<" ", "1", " ", ",", "\t", "2", " ">>,
     <<"1", ",", " ", "2">>,
     <<"1", " ", "2", ",", "3">>,
     <<"1", ",", "2", ",", "3">>,
     <<",">>,
     <<"1", ",">>,
     <<",", "2">>,
     <<"-", "1", ",", "2">>,
     <<"1", ".", "5", ",", "2">>,
     <<"0", ",", "0">>}

InitPair ==
    /\ UnitIdle
    /\ pc = "idle"
    /\ records \in {<<[MacAddress |-> "AA:AA", Bytes |-> b, Packets |-> p]>> :
                        b \in PairStrings, p \in PairStrings}
    /\ ch = <<>>

PairCollect ==
    /\ pc = "idle"
    /\ ch' = Sent(1, WirelessPairs(records[1]))
    /\ pc' = "collected"
    /\ UNCHANGED <<UnitVars, records>>

NextPair == PairCollect

SpecPair == InitPair /\ [][NextPair]_vars

\* the string has exactly one comma, and the text before it and the text
\* after it are runs of decimal digits once their whitespace is trimmed
TwoUnsignedParts(s) ==
    /\ Cardinality(SepIndexes(s, ",")) = 1
    /\ \E i \in SepIndexes(s, ",") :
            /\ UnsignedDecimal(TrimSpace(SubSeq(s, 1, i - 1)))
            /\ UnsignedDecimal(TrimSpace(SubSeq(s, i + 1, Len(s))))

\* C17: parseCommaSeparatedPair succeeds only when the string splits on
\* commas into exactly two parts that both write unsigned integers once
\* trimmed, and for a wireless registration the tx and the rx sample of a
\* pair (bytes, packets) are on the channel both or neither
C17_PairBothOrNeither ==
    \A reg \in {records[1]} :
        /\ \A field \in {reg.Bytes, reg.Packets} :
                parseCommaSeparatedPair(field).ok <=> TwoUnsignedParts(field)
        /\ pc = "collected" =>
                /\ Cardinality(SamplesOf("wireless_tx_bytes_total"))
                        = Cardinality(SamplesOf("wireless_rx_bytes_total"))
                /\ Cardinality(SamplesOf("wireless_tx_packets_total"))
                        = Cardinality(SamplesOf("wireless_rx_packets_total"))
                /\ SamplesOf("wireless_tx_bytes_total") # {} <=> TwoUnsignedParts(reg.Bytes)
                /\ SamplesOf("wireless_tx_packets_total") # {}
                        <=> TwoUnsignedParts(reg.Packets)

\* "100,abc" suppressed both bytes samples while "100,200" gave both packets
\* samples, 100 and 200
C17_Witness ==
    /\ pc = "collected"
    /\ records[1].Bytes = <<"1", "0", "0", ",", "a", "b", "c">>
    /\ records[1].Packets = <<"1", "0", "0", ",", "2", "0", "0">>
    /\ SamplesOf("wireless_tx_bytes_total") = {}
    /\ SamplesOf("wireless_rx_bytes_total") = {}
    /\ \E k \in SamplesOf("wireless_tx_packets_total") : ch[k].sample.value = Float64(100)
    /\ \E k \in SamplesOf("wireless_rx_packets_total") : ch[k].sample.value = Float64(200)

-----------------------------------------------------------------------------
(* Timestamps: parseTimestamp of interfaces *)

IsLeapYear(y) == (y % 4 = 0 /\ y % 100 # 0) \/ y % 400 = 0

DaysInMonth(y, m) ==
    IF m = 2 THEN (IF IsLeapYear(y) THEN 29 ELSE 28)
    ELSE IF m \in {4, 6, 9, 11} THEN 30 ELSE 31

\* the days from 1970-01-01 to the date
DaysFromCivil(y, m, d) ==
    LET yy == IF m <= 2 THEN y - 1 ELSE y
        era == yy \div 400
        yoe == yy - era * 400
        doy == (153 * (IF m > 2 THEN m - 3 ELSE m + 9) + 2) \div 5 + d - 1
        doe == yoe * 365 + yoe \div 4 - yoe \div 100 + doy
    IN  era * 146097 + doe - 719468

\* the string has the shape of the layout "2006-01-02 15:04:05"
TimestampShape(s) ==
    /\ Len(s) = 19
    /\ \A i \in 1..19 :
            IF i \in {5, 8} THEN s[i] = "-"
            ELSE IF i = 11 THEN s[i] = " "
            ELSE IF i \in {14, 17} THEN s[i] = ":"
            ELSE s[i] \in DecDigits

\* parseTimestamp: time.Parse("2006-01-02 15:04:05", timeStr) in UTC, then
\* t.Unix(); 0 for the empty string and for a string time.Parse rejects
parseTimestamp(timeStr) ==
    IF timeStr = <<>> \/ ~TimestampShape(timeStr) THEN 0
    ELSE LET year == DigitsValue(SubSeq(timeStr, 1, 4), 10)
             month == DigitsValue(SubSeq(timeStr, 6, 7), 10)
             day == DigitsValue(SubSeq(timeStr, 9, 10), 10)
             hour == DigitsValue(SubSeq(timeStr, 12, 13), 10)
             min == DigitsValue(SubSeq(timeStr, 15, 16), 10)
             sec == DigitsValue(SubSeq(timeStr, 18, 19), 10)
         IN  IF \/ month \notin 1..12
                \/ day \notin 1..DaysInMonth(year, month)
                \/ hour > 23 \/ min > 59 \/ sec > 59
             THEN 0
             ELSE DaysFromCivil(year, month, day) * 86400 + hour * 3600 + min * 60 + sec

-----------------------------------------------------------------------------
(* Emit sites: the loop body of every Collect, with its descriptors *)

allLabels == <<"mac", "name", "type", "comment">>

clientInfoLabels == <<"mac", "interface", "ssid">>

Flag(b) == IF b THEN 1 ELSE 0

\* a comparison that takes any spelling of the literal
IsTrueAnyCase(field) == field \in {"true", "True", "TRUE"}

\* field == "true"
IsTrue(field) == field = "true"

\* a timestamp emit site that also sends a value of zero
TimestampSamplesFromZero(metric, labels, timeStr) ==
    IF parseTimestamp(timeStr) >= 0
    THEN <<MustNewConstMetric(NewDesc(metric, basicLabels),
                              Float64(parseTimestamp(timeStr)), labels)>>
    ELSE <<>>

\* if t := parseTimestamp(field); t > 0 { ch <- ... float64(t) ... }
TimestampSamples(metric, labels, timeStr) ==
    IF parseTimestamp(timeStr) > 0
    THEN <<MustNewConstMetric(NewDesc(metric, basicLabels),
                              Float64(parseTimestamp(timeStr)), labels)>>
    ELSE <<>>

\* interfaces Collect, one interface
interfacesBody(iface) ==
    <<MustNewConstMetric(NewDesc("interface_enabled", basicLabels),
                         Flag(~IsTrue(iface.Disabled)), <<iface.Name, iface.Type>>),
      MustNewConstMetric(NewDesc("interface_up", allLabels),
                         Flag(IsTrue(iface.Running)),
                         <<iface.MacAddress, iface.Name, iface.Type, iface.Comment>>)>>
        \o FieldSamplesFrom("interfaces", <<iface.Name, iface.Type>>, iface.numeric, 1)
        \o TimestampSamples("interface_last_link_up_time", <<iface.Name, iface.Type>>,
                            iface.LastLinkUpTime)
        \o TimestampSamples("interface_last_link_down_time", <<iface.Name, iface.Type>>,
                            iface.LastLinkDownTime)

\* system Collect, the one resource record
systemBody(tgt, resource) ==
    <<MustNewConstMetric(
          NewDesc("system_info", <<"target", "board_name", "cpu_model", "version", "platform">>),
          1, <<tgt, resource.BoardName, resource.CPU, resource.Version, resource.Platform>>)>>
        \o FieldSamplesFrom("system", <<tgt>>, resource.numeric, 1)
        \o UptimeSamplesWith("system", <<tgt>>, resource.Uptime)

\* session info labels that leave the remote id out
bgpInfoLabelsShort(session) ==
    <<session.Name, session.RemoteAddress, session.RemoteAS,
      session.LocalAddress, session.LocalID, session.LocalAS>>

\* bgp Collect, infoLabels
bgpInfoLabels(session) ==
    <<session.Name, session.RemoteAddress, session.RemoteID, session.RemoteAS,
      session.LocalAddress, session.LocalID, session.LocalAS>>

\* bgp Collect, one session
bgpBody(session) ==
    IF session.Name = "" THEN <<>>
    ELSE <<MustNewConstMetric(NewDesc("bgp_session_up", <<"name">>),
                              Flag(IsTrue(session.Established)), <<session.Name>>)>>
         \o FieldSamplesFrom("bgp", <<session.Name>>, session.numeric, 1)
         \o UptimeSamplesWith("bgp", <<session.Name>>, session.Uptime)
         \o <<MustNewConstMetric(
                  NewDesc("bgp_session_info",
                          <<"name", "remote_address", "remote_id", "remote_as",
                            "local_address", "local_id", "local_as">>),
                  1, bgpInfoLabels(session))>>

\* firewall Collect, one rule of one table
firewallBody(table, rule) ==
    IF rule.ID = "" THEN <<>>
    ELSE <<MustNewConstMetric(NewDesc("firewall_rule_enabled", <<"id", "table">>),
                              Flag(~IsTrue(rule.Disabled)), <<rule.ID, table>>)>>
         \o FieldSamplesFrom("firewall", <<rule.ID, table>>, rule.numeric, 1)
         \o <<MustNewConstMetric(
                  NewDesc("firewall_rule_info", <<"id", "table", "chain", "action", "comment">>),
                  1, <<rule.ID, table, rule.Chain, rule.Action, rule.Comment>>)>>

\* wireless Collect, one registration
wirelessBody(reg) ==
    <<MustNewConstMetric(NewDesc("wireless_client_info", clientInfoLabels),
                         1, <<reg.MacAddress, reg.Interface, reg.SSID>>)>>
        \o WirelessPairs(reg)
        \o FieldSample("wireless", <<reg.MacAddress>>, reg.numeric, 1)
        \o FieldSample("wireless", <<reg.MacAddress>>, reg.numeric, 2)
        \o UptimeSamplesWith("wireless", <<reg.MacAddress>>, reg.Uptime)
        \o FieldSample("wireless", <<reg.MacAddress>>, reg.numeric, 3)

\* the loop body of the collector for one record
CollectBody(tgt, r) ==
    CASE r.collector = "interfaces" -> interfacesBody(r.rec)
      [] r.collector = "system" -> systemBody(tgt, r.rec)
      [] r.collector = "bgp" -> bgpBody(r.rec)
      [] r.collector = "firewall" -> firewallBody(r.table, r.rec)
      [] r.collector = "wireless" -> wirelessBody(r.rec)
      [] r.collector = "dhcp" -> DhcpLease(r.rec)

\* a text field: absent, or holding a text of its own
Text(field) == {"", field}

\* the other fields of a record: all filled with values that decode, or all
\* empty
Filled(name, full) ==
    [numeric |-> [k \in 1..Len(NumericFields(name)) |->
                        IF full THEN <<"4", "2">> ELSE <<>>],
     Uptime |-> IF full THEN <<"1", "h", "5", "s">> ELSE <<>>,
     Bytes |-> IF full THEN <<"1", "0", "0", ",", "2", "0", "0">> ELSE <<>>,
     Packets |-> IF full THEN <<"7", ",", "9">> ELSE <<>>,
     LastLinkUpTime |-> IF full
                        THEN <<"2", "0", "2", "5", "-", "0", "9", "-", "2", "1", " ",
                               "0", "1", ":", "0", "8", ":", "4", "9">>
                        ELSE <<>>,
     LastLinkDownTime |-> IF full
                          THEN <<"2", "0", "2", "5", "-", "0", "9", "-", "2", "0", " ",
                                 "2", "3", ":", "0", "0", ":", "0", "0">>
                          ELSE <<>>,
     Disabled |-> IF full THEN "false" ELSE "",
     Running |-> IF full THEN "true" ELSE "",
     Established |-> IF full THEN "true" ELSE ""]

\* the text fields of the records of a collector
TextFields(name) ==
    CASE name = "interfaces" -> {"MacAddress", "Name", "Type", "Comment"}
      [] name = "system" -> {"BoardName", "CPU", "Version", "Platform"}
      [] name = "bgp" -> {"Name", "RemoteAddress", "RemoteID", "RemoteAS",
                          "LocalAddress", "LocalID", "LocalAS"}
      [] name = "firewall" -> {"ID", "Chain", "Action", "Comment"}
      [] name = "wireless" -> {"MacAddress", "Interface", "SSID"}

\* the record whose text fields are those of `present` and whose other fields
\* are filled or not
DeviceRecord(name, present, full) ==
    [f \in TextFields(name) \cup DOMAIN Filled(name, full) |->
        IF f \in TextFields(name) THEN (IF f \in present THEN f ELSE "")
        ELSE Filled(name, full)[f]]

EmitInputs ==
    UNION {{[collector |-> name, table |-> FirewallTables[t],
             rec |-> DeviceRecord(name, present, full)] :
                present \in SUBSET TextFields(name), full \in BOOLEAN,
                t \in IF name = "firewall" THEN DOMAIN FirewallTables ELSE {1}} :
           name \in NumericCollectors}
    \cup {[collector |-> "dhcp", table |-> "", rec |-> lease] : lease \in DHCPLeases}

InitEmit ==
    /\ UnitIdle
    /\ pc = "idle"
    /\ records \in {<<r>> : r \in EmitInputs}
    /\ ch = <<>>

EmitCollect ==
    /\ pc = "idle"
    /\ ch' = Sent(1, CollectBody(target, records[1]))
    /\ pc' = "collected"
    /\ UNCHANGED <<UnitVars, records>>

NextEmit == EmitCollect

SpecEmit == InitEmit /\ [][NextEmit]_vars

\* the value a label of a collector is declared to carry
LabelSource(r, tgt, label) ==
    CASE r.collector = "dhcp" ->
            (CASE label = "device_ip" -> ActiveOr(r.rec.ActiveAddress, r.rec.Address)
               [] label = "mac" -> ActiveOr(r.rec.ActiveMacAddress, r.rec.MacAddress)
               [] label = "dhcp_server" -> ActiveOr(r.rec.ActiveServer, r.rec.Server)
               [] label = "device_hostname" ->
                    IF r.rec.HostName = "" THEN "unknown" ELSE r.rec.HostName)
      [] OTHER ->
            (CASE label = "target" -> tgt
               [] label = "table" -> r.table
               [] label = "mac" -> r.rec.MacAddress
               [] label = "name" -> r.rec.Name
               [] label = "type" -> r.rec.Type
               [] label = "comment" -> r.rec.Comment
               [] label = "board_name" -> r.rec.BoardName
               [] label = "cpu_model" -> r.rec.CPU
               [] label = "version" -> r.rec.Version
               [] label = "platform" -> r.rec.Platform
               [] label = "remote_address" -> r.rec.RemoteAddress
               [] label = "remote_id" -> r.rec.RemoteID
               [] label = "remote_as" -> r.rec.RemoteAS
               [] label = "local_address" -> r.rec.LocalAddress
               [] label = "local_id" -> r.rec.LocalID
               [] label = "local_as" -> r.rec.LocalAS
               [] label = "id" -> r.rec.ID
               [] label = "chain" -> r.rec.Chain
               [] label = "action" -> r.rec.Action
               [] label = "interface" -> r.rec.Interface
               [] label = "ssid" -> r.rec.SSID)

\* C18: every sample a collector emits supplies exactly as many label values
\* as its descriptor declares label names, each value being the one its label
\* name stands for, at every emit site and for every record
C18_LabelArity ==
    \A k \in 1..Len(ch) :
        LET m == ch[k].sample
        IN  /\ Len(m.labels) = Len(m.desc.labelNames)
            /\ \A j \in 1..Len(m.labels) :
                    j <= Len(m.desc.labelNames) =>
                        m.labels[j] = LabelSource(records[1], target, m.desc.labelNames[j])

\* a bgp session with every field filled sent all its eight samples, the
\* last being session_info with seven label values
C18_Witness ==
    /\ pc = "collected"
    /\ records[1].collector = "bgp"
    /\ Len(ch) = 8
    /\ ch[8].sample.metric = "bgp_session_info"
    /\ Len(ch[8].sample.labels) = 7
    /\ Len(ch[1].sample.labels) = 1

-----------------------------------------------------------------------------
(* Several probes: probeHandler runs once per request, requests overlap *)

MaxProbes == 2      \* requests the server handles at the same time
MaxRequests == 3    \* requests the server receives in all

\* the requests in progress, by the goroutine that serves them
Probes == 1..MaxProbes

\* the devices the requests name
ProbeTargets == {"10.0.0.1:80", "10.0.0.2:80"}

\* the registry main() leaves behind
RECURSIVE RegisterFrom(_, _)
RegisterFrom(r, k) ==
    IF k > Len(RegistrationOrder) THEN r
    ELSE RegisterFrom(Register(r, SetNamespace(NewCollector(RegistrationOrder[k]),
                                               MetricsNamespace)), k + 1)

\* the configuration main() loaded
ProbeConfig ==
    [Auths   |-> [a \in {"default"} |-> Cred("admin", "")],
     Modules |-> [m \in {"default", "minimal"} |->
                    IF m = "default"
                    THEN [n \in {"wireless", "bgp"} |-> TRUE]
                    ELSE [n \in {"system", "dhcp"} |-> n = "system"]],
     loaded  |-> TRUE]

\* one registry for every request
SharedProbeRegistry(p) == CHOOSE q \in Probes : \A r \in Probes : q <= r

\* registry := prometheus.NewRegistry(): the registry of the request that
\* goroutine p serves
NewProbeRegistry(p) == p

\* what the device at tgt returns for a resource
DevicePayload(tgt) == <<Record(tgt)>>

\* the samples of one Collect as they arrive in a registry, with the
\* invocation that sent them
SentBy(p, request, i, name, tgt, samples) ==
    [k \in 1..Len(samples) |->
        [by |-> i, sample |-> samples[k], probe |-> p, request |-> request,
         collector |-> name, target |-> tgt]]

\* ctx.Done() of the context of p: 30 s after its creation (now[p] is the time
\* since then)
ProbeCtxDone(p) == now[p] >= ProbeTimeoutSec

InitProbes ==
    /\ mainPc = "serving"
    /\ nreg = Len(RegistrationOrder)
    /\ collectors = RegisterFrom(NewRegistry, 1)
    /\ cfg = ProbeConfig
    /\ pc = [p \in Probes |-> "idle"]
    /\ query = [p \in Probes |-> NoQuery]
    /\ target = [p \in Probes |-> ""]
    /\ authName = [p \in Probes |-> ""]
    /\ moduleName = [p \in Probes |-> ""]
    /\ moduleConfig = [p \in Probes |-> <<>>]
    /\ enabledCollectors = [p \in Probes |-> <<>>]
    /\ idx = [p \in Probes |-> 1]
    /\ tbl = 1
    /\ records = <<>>
    /\ ch = [p \in Probes |-> <<>>]
    /\ now = [p \in Probes |-> 0]
    /\ fetchStart = 0
    /\ results = [p \in Probes |-> <<>>]
    /\ calls = <<>>
    /\ fetches = <<>>
    /\ clientGone = [p \in Probes |-> FALSE]
    /\ status = [p \in Probes |-> 0]
    /\ body = [p \in Probes |-> {}]

\* probeHandler up to registry.MustRegister and context.WithTimeout, for a
\* request with a target, the default auth and a configured module
ProbeBegin(p) ==
    /\ pc[p] = "idle"
    /\ Len(calls) < MaxRequests
    /\ \E t \in ProbeTargets, m \in DOMAIN cfg.Modules :
        \E order \in Perms(DOMAIN cfg.Modules[m]) :
            /\ query' = [query EXCEPT ![p] = [target |-> t, auth |-> "", module |-> m,
                                              serial |-> Len(calls) + 1]]
            /\ target' = [target EXCEPT ![p] = t]
            /\ authName' = [authName EXCEPT ![p] = DefaultName("")]
            /\ moduleName' = [moduleName EXCEPT ![p] = DefaultName(m)]
            /\ moduleConfig' = [moduleConfig EXCEPT ![p] = cfg.Modules[m]]
            /\ enabledCollectors' =
                    [enabledCollectors EXCEPT ![p] = GetEnabled(collectors, cfg.Modules[m], order)]
            /\ calls' = Append(calls, t)
    /\ ch' = [ch EXCEPT ![NewProbeRegistry(p)] = <<>>]
    /\ idx' = [idx EXCEPT ![p] = 1]
    /\ now' = [now EXCEPT ![p] = 0]
    /\ clientGone' = [clientGone EXCEPT ![p] = FALSE]
    /\ results' = [results EXCEPT ![p] = <<>>]
    /\ pc' = [pc EXCEPT ![p] = "gather"]
    /\ UNCHANGED <<mainVars, tbl, records, fetchStart, fetches, status, body>>

ProbeReturn(p, outcome) ==
    /\ results' = [results EXCEPT ![p] = Append(@, outcome)]
    /\ idx' = [idx EXCEPT ![p] = @ + 1]

\* c.Collect(pc.ctx, pc.target, pc.auth, ch) fetches, decodes and sends
ProbeCollectOk(p) ==
    /\ pc[p] = "gather"
    /\ idx[p] <= Len(enabledCollectors[p])
    /\ ~ProbeCtxDone(p)
    /\ LET name == enabledCollectors[p][idx[p]].name
       IN  ch' = [ch EXCEPT ![NewProbeRegistry(p)] =
                    @ \o SentBy(p, query[p], idx[p], name, target[p],
                               CollectRecords(name, ResourcePaths(name)[1], target[p],
                                              DevicePayload(target[p])))]
    /\ ProbeReturn(p, "ok")
    /\ UNCHANGED <<mainVars, pc, query, target, authName, moduleName, moduleConfig,
                   enabledCollectors, tbl, records, now, fetchStart, calls, fetches,
                   clientGone, status, body>>

\* c.Collect returns an error: the fetch failed
ProbeCollectFails(p) ==
    /\ pc[p] = "gather"
    /\ idx[p] <= Len(enabledCollectors[p])
    /\ ~ProbeCtxDone(p)
    /\ ProbeReturn(p, "failed")
    /\ UNCHANGED <<mainVars, pc, query, target, authName, moduleName, moduleConfig,
                   enabledCollectors, tbl, records, ch, now, fetchStart, calls, fetches,
                   clientGone, status, body>>

\* c.Collect returns an error: the context of the request is done
ProbeCollectCancelled(p) ==
    /\ pc[p] = "gather"
    /\ idx[p] <= Len(enabledCollectors[p])
    /\ ProbeCtxDone(p)
    /\ ProbeReturn(p, "cancelled")
    /\ UNCHANGED <<mainVars, pc, query, target, authName, moduleName, moduleConfig,
                   enabledCollectors, tbl, records, ch, now, fetchStart, calls, fetches,
                   clientGone, status, body>>

\* h.ServeHTTP(w, r): the registry of the request is gathered and written
ProbeServe(p) ==
    /\ pc[p] = "gather"
    /\ idx[p] > Len(enabledCollectors[p])
    /\ status' = [status EXCEPT ![p] = ServeStatus(ch[NewProbeRegistry(p)])]
    /\ body' = [body EXCEPT ![p] =
                    IF GatherError(ch[NewProbeRegistry(p)]) THEN {}
                    ELSE Range(ch[NewProbeRegistry(p)])]
    /\ pc' = [pc EXCEPT ![p] = "done"]
    /\ UNCHANGED <<mainVars, query, target, authName, moduleName, moduleConfig,
                   enabledCollectors, idx, tbl, records, ch, now, fetchStart, results,
                   calls, fetches, clientGone>>

\* the handler returns: its locals are gone
ProbeEnd(p) ==
    /\ pc[p] = "done"
    /\ pc' = [pc EXCEPT ![p] = "idle"]
    /\ query' = [query EXCEPT ![p] = NoQuery]
    /\ target' = [target EXCEPT ![p] = ""]
    /\ authName' = [authName EXCEPT ![p] = ""]
    /\ moduleName' = [moduleName EXCEPT ![p] = ""]
    /\ moduleConfig' = [moduleConfig EXCEPT ![p] = <<>>]
    /\ enabledCollectors' = [enabledCollectors EXCEPT ![p] = <<>>]
    /\ idx' = [idx EXCEPT ![p] = 1]
    /\ now' = [now EXCEPT ![p] = 0]
    /\ results' = [results EXCEPT ![p] = <<>>]
    /\ clientGone' = [clientGone EXCEPT ![p] = FALSE]
    /\ status' = [status EXCEPT ![p] = 0]
    /\ body' = [body EXCEPT ![p] = {}]
    /\ UNCHANGED <<mainVars, tbl, records, ch, fetchStart, calls, fetches>>

\* time passes for every request in progress
ProbesTick ==
    /\ \E p \in Probes : pc[p] = "gather" /\ now[p] < ProbeTimeoutSec
    /\ now' = [p \in Probes |->
                IF pc[p] = "gather" THEN Min(now[p] + TickSec, ProbeTimeoutSec) ELSE now[p]]
    /\ UNCHANGED <<mainVars, pc, query, target, authName, moduleName, moduleConfig,
                   enabledCollectors, idx, tbl, records, ch, fetchStart, results,
                   calls, fetches, clientGone, status, body>>

NextProbes ==
    \/ \E p \in Probes : ProbeBegin(p)
    \/ \E p \in Probes : ProbeCollectOk(p)
    \/ \E p \in Probes : ProbeCollectFails(p)
    \/ \E p \in Probes : ProbeCollectCancelled(p)
    \/ \E p \in Probes : ProbeServe(p)
    \/ \E p \in Probes : ProbeEnd(p)
    \/ ProbesTick

SpecProbes == InitProbes /\ [][NextProbes]_vars

\* the samples in the registry of p and in its response
ProbeOutput(p) == Range(ch[p]) \cup body[p]

\* C19: whatever the interleaving of overlapping and successive requests,
\* the registry and the response of a request hold only samples sent by its
\* own Collect calls, by collectors of its own list and for its own target;
\* a request starts its Collect calls on an empty registry, its context
\* expires on its own clock, and the collector registry never changes
C19_ProbeIsolation ==
    /\ collectors = RegisterFrom(NewRegistry, 1)
    /\ \A p \in Probes :
        /\ pc[p] = "idle" => body[p] = {}
        /\ pc[p] # "idle" =>
            /\ \A e \in ProbeOutput(p) :
                /\ e.probe = p
                /\ e.request = query[p]
                /\ e.target = target[p]
                /\ e.by \in 1..Len(enabledCollectors[p])
                /\ e.collector = enabledCollectors[p][e.by].name
            /\ \A k \in 1..Len(results[p]) :
                /\ results[p][k] = "cancelled" => now[p] >= ProbeTimeoutSec
                /\ results[p][k] = "ok" =>
                        \E e \in Range(ch[p]) : e.by = k

\* the third request is served by the goroutine that served the first, with
\* samples in its response, while another request for the other device has
\* samples in its registry
C19_Witness ==
    /\ pc[1] = "done"
    /\ query[1].serial = MaxRequests
    /\ body[1] # {}
    /\ pc[2] = "gather"
    /\ ch[2] # <<>>
    /\ target[1] # target[2]

-----------------------------------------------------------------------------
(* Uptime and timestamp fields: what each emit site does with each string *)

\* the strings a device may put in an uptime field
UptimeStrings ==
    {<<>>,
     <<"a", "b", "c">>,
     <<"n", "e", "v", "e", "r">>,
     <<"0", "s">>,
     <<"0", "w", "0", "d">>,
     <<"5", "s">>,
     <<"1", "h", "5", "s">>,
     <<"x", "5", "s">>,
     <<"5">>,
     <<"3", "d">>}

\* the strings a device may put in a timestamp field
TimestampStrings ==
    {<<>>,
     <<"n", "e", "v", "e", "r">>,
     <<"2", "0", "2", "5", "-", "0", "9", "-", "2", "1", " ", "0", "1", ":", "0", "8", ":", "4", "9">>,
     <<"2", "0", "2", "5", "-", "9", "-", "2", "1", " ", "0", "1", ":", "0", "8", ":", "4", "9">>,
     <<"2", "0", "2", "5", "-", "1", "3", "-", "0", "1", " ", "0", "0", ":", "0", "0", ":", "0", "0">>,
     <<"2", "0", "2", "5", "-", "0", "9", "-", "2", "1">>,
     <<"1", "9", "7", "0", "-", "0", "1", "-", "0", "1", " ", "0", "0", ":", "0", "0", ":", "0", "0">>,
     <<"1", "9", "7", "0", "-", "0", "1", "-", "0", "1", " ", "0", "0", ":", "0", "0", ":", "0", "1">>,
     <<"1", "9", "6", "9", "-", "1", "2", "-", "3", "1", " ", "2", "3", ":", "5", "9", ":", "5", "9">>}

\* a record of the collector with its text fields present, its other fields
\* empty, and the given uptime and timestamps
TimedRecord(name, uptime, up, down) ==
    [collector |-> name, table |-> "",
     rec |-> [DeviceRecord(name, TextFields(name), FALSE) EXCEPT
                    !["Uptime"] = uptime,
                    !["LastLinkUpTime"] = up,
                    !["LastLinkDownTime"] = down]]

InitTimed ==
    /\ UnitIdle
    /\ pc = "idle"
    /\ records \in {<<TimedRecord(name, u, <<>>, <<>>)>> :
                        name \in UptimeCollectors, u \in UptimeStrings}
                   \cup {<<TimedRecord("interfaces", <<>>, up, down)>> :
                            up \in TimestampStrings, down \in TimestampStrings}
    /\ ch = <<>>

SpecTimed == InitTimed /\ [][NextEmit]_vars

\* the string holds no count followed by a unit letter
NoDurationComponent(s) ==
    ~\E i \in 1..Len(s) - 1 : s[i] \in DecDigits /\ s[i + 1] \in Range(UptimeUnits)

\* the value the emit site of a metric decodes from the record
DecodedTime(r, metric) ==
    CASE metric = "interface_last_link_up_time" -> parseTimestamp(r.rec.LastLinkUpTime)
      [] metric = "interface_last_link_down_time" -> parseTimestamp(r.rec.LastLinkDownTime)
      [] metric = "bgp_session_uptime" -> bgpParseUptime(r.rec.Uptime).val
      [] metric = "system_uptime" -> systemParseUptime(r.rec.Uptime)
      [] metric = "wireless_uptime" -> wirelessParseUptime(r.rec.Uptime)

\* the uptime and timestamp metrics of a collector
TimedMetrics(name) ==
    CASE name = "interfaces" -> {"interface_last_link_up_time", "interface_last_link_down_time"}
      [] name = "bgp" -> {"bgp_session_uptime"}
      [] name = "system" -> {"system_uptime"}
      [] name = "wireless" -> {"wireless_uptime"}

\* the field a metric is decoded from
TimedField(r, metric) ==
    CASE metric = "interface_last_link_up_time" -> r.rec.LastLinkUpTime
      [] metric = "interface_last_link_down_time" -> r.rec.LastLinkDownTime
      [] OTHER -> r.rec.Uptime

\* C21: an uptime or timestamp sample is emitted if and only if its field
\* decodes to a strictly positive value, and then with that value; an empty
\* string, a string without duration components, a timestamp that does not
\* follow the layout, and a value of zero or earlier give no sample
C21_PositiveOnly ==
    pc = "collected" =>
        \A metric \in TimedMetrics(records[1].collector) :
            LET r == records[1]
                field == TimedField(r, metric)
            IN  /\ SamplesOf(metric) # {} <=> DecodedTime(r, metric) > 0
                /\ \A k \in SamplesOf(metric) :
                        ch[k].sample.value = Float64(DecodedTime(r, metric))
                /\ field = <<>> => SamplesOf(metric) = {}
                /\ (r.collector # "interfaces" /\ NoDurationComponent(field))
                        => SamplesOf(metric) = {}
                /\ (r.collector = "interfaces" /\ ~TimestampShape(field))
                        => SamplesOf(metric) = {}

\* the link went up at the epoch itself, which gave no sample, and went down
\* one second later, which gave a sample of value 1
C21_Witness ==
    /\ pc = "collected"
    /\ records[1].collector = "interfaces"
    /\ parseTimestamp(records[1].rec.LastLinkUpTime) = 0
    /\ TimestampShape(records[1].rec.LastLinkUpTime)
    /\ SamplesOf("interface_last_link_up_time") = {}
    /\ \E k \in SamplesOf("interface_last_link_down_time") : ch[k].sample.value = Float64(1)

-----------------------------------------------------------------------------
(* Flag fields: what each emit site does with each string *)

\* the strings a device may put in a flag or status field
FlagStrings == {"", "true", "false", "True", "TRUE", "yes", "bound", "Bound", "waiting"}

\* a record of the collector with the given flag fields; its identity field
\* is present or not
FlagRecord(name, identified, disabled, running) ==
    [collector |-> name, table |-> FirewallTables[1],
     rec |-> [DeviceRecord(name, IF identified THEN TextFields(name) ELSE {}, FALSE) EXCEPT
                    !["Disabled"] = disabled,
                    !["Running"] = running,
                    !["Established"] = running]]

\* a lease with the given status; its addresses are present or not
FlagLease(identified, st) ==
    [collector |-> "dhcp", table |-> "",
     rec |-> [ActiveAddress |-> "", Address |-> IF identified THEN "10.0.0.5" ELSE "",
              ActiveMacAddress |-> "", MacAddress |-> "BB:BB",
              ActiveServer |-> "", Server |-> "dhcp1",
              HostName |-> "", Status |-> st]]

InitFlags ==
    /\ UnitIdle
    /\ pc = "idle"
    /\ records \in {<<FlagRecord("interfaces", id, d, r)>> :
                        id \in BOOLEAN, d \in FlagStrings, r \in FlagStrings}
                   \cup {<<FlagRecord("bgp", id, "", r)>> : id \in BOOLEAN, r \in FlagStrings}
                   \cup {<<FlagRecord("firewall", id, d, "")>> : id \in BOOLEAN, d \in FlagStrings}
                   \cup {<<FlagLease(id, st)>> : id \in BOOLEAN, st \in FlagStrings}
    /\ ch = <<>>

SpecFlags == InitFlags /\ [][NextEmit]_vars

\* the metric has exactly one sample on the channel, with this value
OneSample(metric, value) ==
    /\ Cardinality(SamplesOf(metric)) = 1
    /\ \A k \in SamplesOf(metric) : ch[k].sample.value = value

\* C22: every flag metric is emitted for every record that is not skipped,
\* with value 1 or 0 by exact equality with the literal: session_up and
\* interface_up are 1 iff the field is "true", dhcp_bound is 1 iff the status
\* is "bound", the enabled metrics are 0 iff the disabled field is "true"
C22_Flags ==
    pc = "collected" =>
        LET r == records[1]
        IN  /\ r.collector = "interfaces" =>
                /\ OneSample("interface_enabled", IF r.rec.Disabled = "true" THEN 0 ELSE 1)
                /\ OneSample("interface_up", IF r.rec.Running = "true" THEN 1 ELSE 0)
            /\ r.collector = "bgp" =>
                IF r.rec.Name = "" THEN ch = <<>>
                ELSE OneSample("bgp_session_up", IF r.rec.Established = "true" THEN 1 ELSE 0)
            /\ r.collector = "firewall" =>
                IF r.rec.ID = "" THEN ch = <<>>
                ELSE OneSample("firewall_rule_enabled",
                               IF r.rec.Disabled = "true" THEN 0 ELSE 1)
            /\ r.collector = "dhcp" =>
                IF r.rec.Address = "" THEN ch = <<>>
                ELSE OneSample("dhcp_bound", IF r.rec.Status = "bound" THEN 1 ELSE 0)

\* an interface whose disabled field is "True" and whose running field is
\* "TRUE" was reported enabled and down
C22_Witness ==
    /\ pc = "collected"
    /\ records[1].collector = "interfaces"
    /\ records[1].rec.Disabled = "True"
    /\ records[1].rec.Running = "TRUE"
    /\ OneSample("interface_enabled", 1)
    /\ OneSample("interface_up", 0)

-----------------------------------------------------------------------------
(* The firewall collector under ProbeCollector.Collect *)

\* the lists a ProbeCollector holds when the firewall collector is among its
\* collectors
FirewallLists ==
    {<<SetNamespace(NewCollector("firewall"), MetricsNamespace)>>,
     <<SetNamespace(NewCollector("firewall"), MetricsNamespace),
       SetNamespace(NewCollector("system"), MetricsNamespace)>>}

\* probeHandler has built the ProbeCollector and its context; Gather begins
InitFirewall ==
    /\ mainPc = "serving"
    /\ nreg = Len(RegistrationOrder)
    /\ collectors = Register(RegisterFrom(NewRegistry, 1),
                             SetNamespace(NewCollector("firewall"), MetricsNamespace))
    /\ cfg = ProbeConfig
    /\ pc = "gather"
    /\ query = [target |-> "10.0.0.1:80", auth |-> "", module |-> "firewall"]
    /\ target = "10.0.0.1:80"
    /\ authName = "default"
    /\ moduleName = "firewall"
    /\ enabledCollectors \in FirewallLists
    /\ moduleConfig = [n \in {enabledCollectors[i].name : i \in 1..Len(enabledCollectors)}
                            |-> TRUE]
    /\ idx = 1
    /\ tbl = 1
    /\ records = <<>>
    /\ ch = <<>>
    /\ now = 0
    /\ fetchStart = 0
    /\ results = <<>>
    /\ calls = <<>>
    /\ fetches = <<>>
    /\ clientGone = FALSE
    /\ status = 0
    /\ body = {}

NextFirewall ==
    \/ CollectNext
    \/ FetchOk
    \/ FetchFails
    \/ FetchTimeout
    \/ FetchCancelled
    \/ EmitRecords
    \/ ServeHTTP
    \/ Tick

SpecFirewall == InitFirewall /\ [][NextFirewall]_vars

\* the fetches of the firewall collector, in the order they were issued
FirewallFetches == SelectSeq(fetches, LAMBDA f : f.collector = "firewall")

\* C23: the firewall collector fetches its tables one at a time in the order
\* filter, nat, mangle, raw; the first fetch that fails is its last fetch and
\* makes the collector return that failure; it returns success only after
\* four successful fetches
C23_FirewallTables ==
    LET ff == FirewallFetches
        order == <<"filter", "nat", "mangle", "raw">>
    IN  /\ Len(ff) <= 4
        /\ \A k \in 1..Len(ff) :
            /\ ff[k].path = order[k]
            /\ k < Len(ff) => /\ ff[k].outcome = "ok"
                              /\ ff[k].end <= ff[k + 1].start
            /\ ff[k].outcome \notin {"ok", "inflight"} =>
                    /\ Len(results) >= 1
                    /\ results[1].outcome = ff[k].outcome
        /\ (Len(results) >= 1 /\ results[1].outcome = "ok") =>
                /\ Len(ff) = 4
                /\ \A k \in 1..4 : ff[k].outcome = "ok"
        /\ Len(results) >= 1 => ff[Len(ff)].outcome # "inflight"

\* the fetch of mangle failed after filter and nat were fetched: the
\* collector returned the failure and raw was never fetched
C23_Witness ==
    /\ pc = "done"
    /\ Len(FirewallFetches) = 3
    /\ FirewallFetches[3].path = "mangle"
    /\ FirewallFetches[3].outcome = "status"
    /\ results[1].outcome = "status"

\* the samples the firewall collector sent before it returned
FirewallSent == SelectSeq(ch, LAMBDA m : enabledCollectors[m.by].name = "firewall")

\* the firewall collector returned a failure after it had sent samples
FirewallFailedAfterSamples ==
    /\ pc = "done"
    /\ results[1].outcome # "ok"
    /\ FirewallSent # <<>>

C27_NoRollbackWhenGathered ==
    (FirewallFailedAfterSamples /\ ~GatherError(ch)) =>
        \A k \in 1..Len(FirewallSent) : FirewallSent[k].sample \in body

\* a failed firewall collector whose earlier samples are served
C27_Served ==
    /\ FirewallFailedAfterSamples
    /\ status = StatusOK
    /\ \A k \in 1..Len(FirewallSent) : FirewallSent[k].sample \in body

-----------------------------------------------------------------------------
(* Single-fetch collectors *)

SingleFetchCollectors == {"interfaces", "dhcp", "bgp", "system", "wireless"}

\* the samples on the channel that the i-th Collect of the probe sent
SentByCall(i) == SelectSeq(ch, LAMBDA m : m.by = i)

\* C24: every Collect of a single-fetch collector issues exactly one GET; when
\* that fetch fails the Collect returns that one failure, no second GET is
\* issued for it and it sends no sample
C24_SingleFetch ==
    /\ \A i \in 1..Len(calls) : calls[i] \in SingleFetchCollectors
    /\ Len(fetches) = Len(calls)
    /\ Len(results) <= Len(calls)
    /\ Len(calls) <= Len(results) + 1
    /\ \A i \in 1..Len(calls) :
        /\ fetches[i].collector = calls[i]
        /\ i <= Len(results) =>
            /\ results[i].outcome = fetches[i].outcome
            /\ results[i].outcome # "ok" => SentByCall(i) = <<>>

\* a probe of two collectors: the fetch of the first timed out, the second
\* answered; one GET each and only the second sent samples
C24_Witness ==
    /\ pc = "done"
    /\ Len(calls) = 2
    /\ Len(fetches) = 2
    /\ results[1].outcome = "timeout"
    /\ results[2].outcome = "ok"
    /\ SentByCall(1) = <<>>
    /\ SentByCall(2) # <<>>

-----------------------------------------------------------------------------
(* Startup and serving *)

\* main() has run every registration and loaded the configuration
StartupComplete ==
    /\ nreg = Len(RegistrationOrder)
    /\ collectors = RegisterFrom(NewRegistry, 1)
    /\ \A n \in DOMAIN collectors : collectors[n].namespace = MetricsNamespace
    /\ cfg.loaded

\* C25: registrations, namespaces and the configuration are complete before
\* the first probe is accepted, and while the server serves nothing writes the
\* registry, its collectors or the configuration
C25_StartupBeforeServing ==
    /\ [](pc # "idle" => mainPc = "serving")
    /\ [](mainPc = "serving" => StartupComplete)
    /\ [][mainPc = "serving" =>
            /\ mainPc' = "serving"
            /\ UNCHANGED <<nreg, collectors, cfg>>]_vars

\* a probe has been answered with metrics by the serving process
C25_Witness ==
    /\ mainPc = "serving"
    /\ StartupComplete
    /\ pc = "done"
    /\ status = StatusOK
    /\ body # {}

-----------------------------------------------------------------------------
(* Registry.Register and Registry.List *)

\* the collectors handed to Register: of one name, two distinct handles
RegistryHandles ==
    {SetNamespace(NewCollector(n), ns) : n \in ResolveNames,
                                         ns \in {DefaultNamespace, "custom"}}

\* NewRegistry(); `calls` logs the collectors handed to Register, `records`
\* holds what List returned
InitRegistry ==
    /\ UnitIdle
    /\ pc = "idle"
    /\ records = <<>>
    /\ ch = <<>>

RegistryRegister ==
    /\ Len(calls) < MaxRegisters
    /\ \E c \in RegistryHandles :
          /\ collectors' = Register(collectors, c)
          /\ calls' = Append(calls, c)
    /\ pc' = "idle"
    /\ records' = <<>>
    /\ UNCHANGED <<mainPc, nreg, cfg, query, target, authName, moduleName,
                   moduleConfig, enabledCollectors, idx, tbl, ch, now,
                   fetchStart, results, fetches, clientGone, status, body>>

\* for name := range r.collectors: the range visits the keys in some order
RegistryList ==
    /\ \E order \in Perms(DOMAIN collectors) : records' = List(collectors, order)
    /\ pc' = "listed"
    /\ UNCHANGED <<UnitVars, ch>>

NextRegistry ==
    \/ RegistryRegister
    \/ RegistryList

SpecRegistry == InitRegistry /\ [][NextRegistry]_vars

\* the last collector handed to Register under the name n
LastRegistered(n) ==
    LET last == CHOOSE i \in 1..Len(calls) :
                    /\ calls[i].name = n
                    /\ \A j \in (i + 1)..Len(calls) : calls[j].name # n
    IN  calls[last]

RegisteredNames == {calls[i].name : i \in 1..Len(calls)}

\* C26: after any sequence of Register calls the registry holds, under each
\* registered name and no other, the collector registered last under it, and
\* List returns each registered name once and nothing else
C26_RegisterList ==
    /\ DOMAIN collectors = RegisteredNames
    /\ \A n \in RegisteredNames : collectors[n] = LastRegistered(n)
    /\ pc = "listed" =>
        /\ Range(records) = RegisteredNames
        /\ Len(records) = Cardinality(RegisteredNames)

\* a name was registered twice with different collectors, another name once,
\* and List was called
C26_Witness ==
    /\ pc = "listed"
    /\ Len(calls) = 3
    /\ calls[1].name = calls[3].name
    /\ calls[1] # calls[3]
    /\ calls[2].name # calls[1].name
    /\ Len(records) = 2

-----------------------------------------------------------------------------
(* C28 *)

-----------------------------------------------------------------------------
(* C29 *)

\* the names the module of the probe maps to true
FlaggedNames == {n \in DOMAIN moduleConfig : moduleConfig[n]}

\* the resource paths of the collectors the module does not map to true
UnflaggedPaths ==
    UNION {Range(ResourcePaths(n)) : n \in DomainCollectors \ FlaggedNames}

\* C29: during a probe Collect is invoked only on the collectors of the
\* resolved list, each of which the module maps to true; no collector whose
\* flag is false or absent is invoked and none of its paths is fetched
C29_OnlyResolved ==
    pc # "idle" =>
        /\ Len(calls) <= Len(enabledCollectors)
        /\ \A i \in 1..Len(calls) :
            /\ calls[i] = enabledCollectors[i].name
            /\ calls[i] \in FlaggedNames
        /\ \A k \in 1..Len(fetches) :
            /\ fetches[k].collector \in FlaggedNames
            /\ fetches[k].collector \in Range(calls)
            /\ fetches[k].path \in Range(ResourcePaths(fetches[k].collector))
            /\ fetches[k].path \notin UnflaggedPaths

\* a finished probe of a module that maps one registered collector to false
\* and another registered collector is absent from it: only the flagged
\* collectors were invoked
C29_Witness ==
    /\ pc = "done"
    /\ calls # <<>>
    /\ fetches # <<>>
    /\ \E n \in DOMAIN moduleConfig : ~moduleConfig[n] /\ n \in DOMAIN collectors
    /\ \E n \in DOMAIN collectors : n \notin DOMAIN moduleConfig
    /\ Range(calls) \subseteq FlaggedNames

-----------------------------------------------------------------------------
(* parseUptime at the width of int64.  A natural number is the sequence of
   its limbs, least significant first; an int64 is its eight limbs in two's
   complement. *)

LimbBase == 2 ^ 8

WordLimbs == 64 \div 8

\* n * k + carry, for a small k
RECURSIVE NatMulSmall(_, _, _)
NatMulSmall(n, k, carry) ==
    IF n = <<>>
    THEN IF carry = 0 THEN <<>>
         ELSE <<carry % LimbBase>> \o NatMulSmall(<<>>, k, carry \div LimbBase)
    ELSE <<(Head(n) * k + carry) % LimbBase>>
            \o NatMulSmall(Tail(n), k, (Head(n) * k + carry) \div LimbBase)

\* a + b + carry
RECURSIVE NatAdd(_, _, _)
NatAdd(a, b, carry) ==
    IF a = <<>> /\ b = <<>>
    THEN IF carry = 0 THEN <<>> ELSE <<carry>>
    ELSE <<((IF a = <<>> THEN 0 ELSE Head(a)) + (IF b = <<>> THEN 0 ELSE Head(b)) + carry)
                % LimbBase>>
            \o NatAdd(IF a = <<>> THEN <<>> ELSE Tail(a),
                      IF b = <<>> THEN <<>> ELSE Tail(b),
                      ((IF a = <<>> THEN 0 ELSE Head(a)) + (IF b = <<>> THEN 0 ELSE Head(b)) + carry)
                          \div LimbBase)

\* the number without its leading zero limbs
RECURSIVE NatNorm(_)
NatNorm(n) ==
    IF n # <<>> /\ n[Len(n)] = 0 THEN NatNorm(SubSeq(n, 1, Len(n) - 1)) ELSE n

\* the number a run of decimal digits writes
RECURSIVE NatFromDigits(_)
NatFromDigits(s) ==
    IF s = <<>> THEN <<>>
    ELSE NatMulSmall(NatFromDigits(SubSeq(s, 1, Len(s) - 1)), 10, DigitVal(s[Len(s)]))

\* the low 64 bits: what an int64 keeps of a result
Int64(n) == [i \in 1..WordLimbs |-> IF i <= Len(n) THEN n[i] ELSE 0]

\* the sign bit of an int64
Int64Negative(w) == w[WordLimbs] >= LimbBase \div 2

\* whether the number is at most math.MaxInt64
FitsInt64(n) == Len(NatNorm(n)) <= WordLimbs /\ ~Int64Negative(Int64(n))

\* strconv.ParseInt(digits, 10, 64) of a run of digits: a value above
\* math.MaxInt64 is a range error
ParseInt64(digits) ==
    IF digits # <<>> /\ FitsInt64(NatFromDigits(digits))
    THEN Parsed(Int64(NatFromDigits(digits)))
    ELSE Failed

\* a * unit in int64
Int64Mul(a, unit) == Int64(NatMulSmall(a, unit, 0))

\* a + b in int64
Int64Add(a, b) == Int64(NatAdd(a, b, 0))

\* if matches[k] != "" { if n, err := strconv.ParseInt(matches[k], 10, 64);
\* err == nil { totalSeconds += n * unit } }
UptimePartInt64(total, digits, unit) ==
    IF digits # <<>> /\ ParseInt64(digits).ok
    THEN Int64Add(total, Int64Mul(ParseInt64(digits).val, unit))
    ELSE total

\* var totalSeconds int64, then the five components in order
UptimeTotalInt64(matches) ==
    UptimePartInt64(
        UptimePartInt64(
            UptimePartInt64(
                UptimePartInt64(
                    UptimePartInt64(Int64(<<>>), matches[1], 7 * 24 * 3600),
                    matches[2], 24 * 3600),
                matches[3], 3600),
            matches[4], 60),
        matches[5], 1)

\* system: parseUptime, in int64
systemParseUptimeInt64(uptimeStr) ==
    IF uptimeStr = <<>> THEN Int64(<<>>)
    ELSE UptimeTotalInt64(FindUptimeSubmatch(uptimeStr))

\* wireless: parseUptime, in int64
wirelessParseUptimeInt64(uptimeStr) ==
    IF uptimeStr = <<>> THEN Int64(<<>>)
    ELSE UptimeTotalInt64(FindUptimeSubmatch(uptimeStr))

\* the counts a large duration is written with: around 2^63 / 604800,
\* 2^63 / 86400 and 2^63
LargeWeeks ==
    {<<"1">>,
     <<"1", "5", "2", "5", "0", "2", "8", "4", "4", "5", "2", "4", "7", "1">>,
     <<"1", "5", "2", "5", "0", "2", "8", "4", "4", "5", "2", "4", "7", "2">>,
     <<"3", "0", "5", "0", "0", "5", "6", "8", "9", "0", "4", "9", "4", "4">>,
     <<"9", "2", "2", "3", "3", "7", "2", "0", "3", "6", "8", "5", "4", "7", "7", "5", "8", "0", "7">>}

LargeDays ==
    {<<"1">>,
     <<"1", "0", "6", "7", "5", "1", "9", "9", "1", "1", "6", "7", "3", "0", "0">>,
     <<"1", "0", "6", "7", "5", "1", "9", "9", "1", "1", "6", "7", "3", "0", "1">>}

LargeSeconds ==
    {<<"5">>,
     <<"9", "2", "2", "3", "3", "7", "2", "0", "3", "6", "8", "5", "4", "7", "7", "5", "8", "0", "7">>,
     <<"9", "2", "2", "3", "3", "7", "2", "0", "3", "6", "8", "5", "4", "7", "7", "5", "8", "0", "8">>}

LargePart(part, unit) == IF part = <<>> THEN <<>> ELSE part[1] \o unit

LargeUptime(w, d, sec) ==
    LargePart(w, <<"w">>) \o LargePart(d, <<"d">>) \o LargePart(sec, <<"s">>)

InitUptimeInt64 ==
    /\ UnitIdle
    /\ pc = "idle"
    /\ records \in {<<[collector |-> name, uptime |-> LargeUptime(w, d, sec)]>> :
                        name \in {"system", "wireless"},
                        w \in OptionalCount(LargeWeeks),
                        d \in OptionalCount(LargeDays),
                        sec \in OptionalCount(LargeSeconds)}
    /\ ch = <<>>

\* uptime := parseUptime(resource.Uptime): `ch` holds the value returned
UptimeInt64System ==
    /\ pc = "idle"
    /\ records[1].collector = "system"
    /\ ch' = <<systemParseUptimeInt64(records[1].uptime)>>
    /\ pc' = "decoded"
    /\ UNCHANGED <<UnitVars, records>>

UptimeInt64Wireless ==
    /\ pc = "idle"
    /\ records[1].collector = "wireless"
    /\ ch' = <<wirelessParseUptimeInt64(records[1].uptime)>>
    /\ pc' = "decoded"
    /\ UNCHANGED <<UnitVars, records>>

NextUptimeInt64 ==
    \/ UptimeInt64System
    \/ UptimeInt64Wireless

SpecUptimeInt64 == InitUptimeInt64 /\ [][NextUptimeInt64]_vars

\* every component of the string is at most math.MaxInt64
ComponentsFit(uptime) ==
    \A k \in 1..5 : LET digits == FindUptimeSubmatch(uptime)[k]
                    IN  digits # <<>> => FitsInt64(NatFromDigits(digits))

\* weeks x 604800 + days x 86400 + hours x 3600 + minutes x 60 + seconds, in
\* the natural numbers
ExactTotal(uptime) ==
    LET m == FindUptimeSubmatch(uptime)
    IN  NatNorm(NatAdd(NatMulSmall(NatFromDigits(m[1]), 604800, 0),
                  NatAdd(NatMulSmall(NatFromDigits(m[2]), 86400, 0),
                    NatAdd(NatMulSmall(NatFromDigits(m[3]), 3600, 0),
                      NatAdd(NatMulSmall(NatFromDigits(m[4]), 60, 0),
                             NatFromDigits(m[5]), 0), 0), 0), 0))

\* C30: for a duration string whose components each fit a 64-bit integer the
\* decoded total is the exact weighted sum of the components: it is not
\* negative and no bit of the sum is lost
C30_NoWrapAround ==
    (pc = "decoded" /\ ComponentsFit(records[1].uptime)) =>
        /\ ~Int64Negative(ch[1])
        /\ NatNorm(ch[1]) = ExactTotal(records[1].uptime)

\* the same for the strings whose exact total fits a 64-bit integer
C30_ExactWhenTotalFits ==
    (pc = "decoded" /\ ComponentsFit(records[1].uptime)
        /\ FitsInt64(ExactTotal(records[1].uptime))) =>
        /\ ~Int64Negative(ch[1])
        /\ NatNorm(ch[1]) = ExactTotal(records[1].uptime)

\* "30500568904944w" was decoded to 579,584
C30_Truncated ==
    /\ pc = "decoded"
    /\ records[1].uptime = LargeUptime(<<<<"3", "0", "5", "0", "0", "5", "6", "8", "9", "0", "4", "9", "4", "4">>>>, <<>>, <<>>)
    /\ NatNorm(ch[1]) = NatFromDigits(<<"5", "7", "9", "5", "8", "4">>)

====
